---------------------------- MODULE Spec2Model ----------------------------
(***************************************************************************)
(* Model of the HD44780 character-LCD driver of the EvaBoard repository    *)
(* (Tests/LCD/lcd.c, lcd.h) in its shipped configuration: fixed delays     *)
(* (LCD_BUSY_TIMEOUT undefined), LCD_CC_TILDE = 1, LCD_CC_BACKSLASH = 2,   *)
(* LCD_CC_IXI undefined.                                                   *)
(*                                                                         *)
(* The driver state is the pair (lcdCursor, utf8Buffer).  Every C function *)
(* is an operator on a driver record d = [cur, buf, out, disp]: cur and    *)
(* buf are the two globals, out is the list of bus transfers the call has  *)
(* made so far, disp the code points it has dispatched.  An action applies *)
(* one public function to the current state and lets the controller        *)
(* execute the transfers.                                                  *)
(*                                                                         *)
(* TLC's integers are 32-bit signed, so the uint32_t utf8Buffer is kept as *)
(* its four bytes, most significant first; masks are written the same way. *)
(***************************************************************************)
EXTENDS Integers, Sequences, FiniteSets

VARIABLES
    ready,        \* lcd_init has returned (lcd.h: it must be called first)
    lcdCursor,    \* uint8_t lcdCursor
    utf8Buffer,   \* uint32_t utf8Buffer, as <<b3, b2, b1, b0>>
    ac,           \* the controller's address counter: [ram, addr]
    call,         \* the last public call: [op, args, cursor0]
    out,          \* the bus transfers of the last call
    disp,         \* the code points the last call dispatched
    stored,       \* the RAM cells the controller wrote during the last call
    feed,         \* harness: the byte string being fed to lcd_writeChar
    feedCp,       \* harness: the code point feed encodes, or -1
    pos,          \* harness: how many bytes of it have been fed
    feedStart,    \* harness: lcdCursor when the feeding started
    feedDisp,     \* harness: every code point dispatched since then
    feedData,     \* harness: every data-register byte sent since then
    run,          \* harness: single-byte characters written in a row
    runNl,        \* harness: one of them was a newline
    iface,        \* the controller's bus interface: [mode, phase, high]
    decoded,      \* the bytes the controller has decoded since the homing
    fault,        \* what the last call ran into: [div0, hang]
    bus           \* the pins, the interrupt flag and the position in sendByte

vars == <<ready, lcdCursor, utf8Buffer, ac, call, out, disp, stored,
          feed, feedCp, pos, feedStart, feedDisp, feedData, run, runNl,
          iface, decoded, fault, bus>>

probeVars == <<iface, decoded, fault, bus>>

harnessVars == <<feed, feedCp, pos, feedStart, feedDisp, feedData, run, runNl,
                 probeVars>>

---------------------------------------------------------------------------
(* Bounds of the model *)

\* lcdCursor is a uint8_t; calls that would take it above MaxCursor are not
\* explored.
MaxCursor == 35

\* The longest run of single-byte characters the page-break harness writes.
MaxRun == 100

---------------------------------------------------------------------------
(* Bit arithmetic on bytes and on 32-bit words *)

RECURSIVE BitAnd(_, _)
BitAnd(a, b) ==
    IF a = 0 \/ b = 0 THEN 0
    ELSE (a % 2) * (b % 2) + 2 * BitAnd(a \div 2, b \div 2)

RECURSIVE BitOr(_, _)
BitOr(a, b) ==
    IF a = 0 THEN b
    ELSE IF b = 0 THEN a
    ELSE (IF a % 2 = 1 \/ b % 2 = 1 THEN 1 ELSE 0) + 2 * BitOr(a \div 2, b \div 2)

\* w & m on uint32_t
And32(w, m) == [i \in 1..4 |-> BitAnd(w[i], m[i])]

\* (w << 8) | c on uint32_t: the oldest byte is lost
Shl8Or(w, c) == <<w[2], w[3], w[4], c>>

\* The value of a word whose top byte is below 0x80
Val32(w) == ((w[1] * 256 + w[2]) * 256 + w[3]) * 256 + w[4]

Zero32 == <<0, 0, 0, 0>>

---------------------------------------------------------------------------
(* Configuration: lcd.h *)

LCD_CC_TILDE == 1

LCD_CC_BACKSLASH == 2

\* CUSTOM_CHAR(cc0, .., cc7): a uint64_t, kept as its bytes, lowest first
LCD_CC_TILDE_BITMAP == <<\h00, \h08, \h15, \h02, \h00, \h00, \h00, \h00>>

LCD_CC_BACKSLASH_BITMAP == <<\h00, \h10, \h08, \h04, \h02, \h01, \h00, \h00>>

---------------------------------------------------------------------------
(* Bus transfers *)

\* sendNibble(regSel, nibble) followed by a delay of `delay` microseconds
Nibble(d, regSel, nibble, delay) ==
    [d EXCEPT !.out = Append(@, [k |-> "nibble", rs |-> regSel, c |-> nibble % 16,
                                 delay |-> delay])]

\* SEND_BYTE(regSel, c, delay) without LCD_BUSY_TIMEOUT:
\* sendByte(regSel, c); _delay_us(delay).  c is a uint8_t.
SEND_BYTE(d, regSel, c, delay) ==
    [d EXCEPT !.out = Append(@, [k |-> "byte", rs |-> regSel, c |-> c % 256,
                                 delay |-> delay])]

\* Address without the 0x40 offset of the second line
Address_linear(cur) == IF cur < 32 THEN cur ELSE \h00

\* The DDRAM address updateCursor computes from lcdCursor
Address(cur) ==
    IF cur < 16 THEN cur
    ELSE IF cur < 32 THEN BitOr(\h40, BitAnd(cur, \h0f))
    ELSE \h00

updateCursor(d) == SEND_BYTE(d, 0, BitOr(\h80, Address(d.cur)), 42)

---------------------------------------------------------------------------
(* Cursor movement *)

lcd_line1(d) == updateCursor([d EXCEPT !.cur = 0])

lcd_line2(d) == updateCursor([d EXCEPT !.cur = 16])

\* lcd_goto without the upper boundary check on column
lcd_goto_noclamp(d, row, column) ==
    LET r1 == IF row < 1 THEN 1 ELSE row
        r2 == IF r1 > 2 THEN 2 ELSE r1
        c1 == IF column < 1 THEN 1 ELSE column
    IN  updateCursor([d EXCEPT !.cur = BitOr((r2 - 1) * 16, c1 - 1) % 256])

\* row and column are unsigned char
lcd_goto(d, row, column) ==
    LET r1 == IF row < 1 THEN 1 ELSE row
        r2 == IF r1 > 2 THEN 2 ELSE r1
        c1 == IF column < 1 THEN 1 ELSE column
        c2 == IF c1 > 16 THEN 16 ELSE c1
    IN  updateCursor([d EXCEPT !.cur = BitOr((r2 - 1) * 16, c2 - 1) % 256])

\* row and column are (signed) char, promoted to int in the sums
lcd_move(d, row, column) ==
    LET newRow == ((d.cur \div 16) + (row + 1)) % 2
        newCol == (d.cur + (column + 15)) % 16
    IN  updateCursor([d EXCEPT !.cur = BitOr(newRow * 16, newCol)])

\* lcd_back with the wrap from 0 to 31 left out
lcd_back_nowrap(d) == updateCursor([d EXCEPT !.cur = IF @ = 0 THEN 0 ELSE @ - 1])

lcd_back(d) ==
    updateCursor([d EXCEPT !.cur = IF @ = 0 THEN 31 ELSE @ - 1])

\* lcd_home always going to the first line
lcd_home_line1(d) == updateCursor([d EXCEPT !.cur = 0])

lcd_home(d) == updateCursor([d EXCEPT !.cur = BitAnd(@, \h10)])

lcd_forward(d) ==
    updateCursor([d EXCEPT !.cur = IF @ = 31 THEN 0 ELSE (@ + 1) % 256])

---------------------------------------------------------------------------
(* Erasing *)

lcd_clear_short(d) == [SEND_BYTE(d, 0, \h01, 42) EXCEPT !.cur = 0]

lcd_clear(d) == [SEND_BYTE(d, 0, \h01, 1640) EXCEPT !.cur = 0]

---------------------------------------------------------------------------
(* Writing: the UTF-8 decoder of lcd_writeChar *)

\* 4-byte character (11110xxx 10xxxxxx 10xxxxxx 10xxxxxx)
CodePoint4(buf) ==
    Val32(And32(buf, <<\h07, \h00, \h00, \h00>>)) \div 64
    + Val32(And32(buf, <<\h00, \h3f, \h00, \h00>>)) \div 16
    + Val32(And32(buf, <<\h00, \h00, \h3f, \h00>>)) \div 4
    + Val32(And32(buf, <<\h00, \h00, \h00, \h3f>>))

\* CodePoint3 with the middle byte shifted by 3 instead of 2
CodePoint3_badshift(buf) ==
    Val32(And32(buf, <<\h00, \h0f, \h00, \h00>>)) \div 16
    + Val32(And32(buf, <<\h00, \h00, \h3f, \h00>>)) \div 8
    + Val32(And32(buf, <<\h00, \h00, \h00, \h3f>>))

\* 3-byte character (1110xxxx 10xxxxxx 10xxxxxx)
CodePoint3(buf) ==
    Val32(And32(buf, <<\h00, \h0f, \h00, \h00>>)) \div 16
    + Val32(And32(buf, <<\h00, \h00, \h3f, \h00>>)) \div 4
    + Val32(And32(buf, <<\h00, \h00, \h00, \h3f>>))

\* 2-byte character (110xxxxx 10xxxxxx)
CodePoint2(buf) ==
    Val32(And32(buf, <<\h00, \h00, \h1f, \h00>>)) \div 4
    + Val32(And32(buf, <<\h00, \h00, \h00, \h3f>>))

\* Decode waiting for more bytes when the continuation bytes of a 4-byte
\* character do not match
Decode_keep4(buf) ==
    IF And32(buf, <<\hf8, \h00, \h00, \h00>>) = <<\hf0, \h00, \h00, \h00>> THEN
        IF And32(buf, <<\h00, \hc0, \hc0, \hc0>>) = <<\h00, \h80, \h80, \h80>>
        THEN [done |-> TRUE, cp |-> CodePoint4(buf)]
        ELSE [done |-> FALSE, cp |-> \hfffd]
    ELSE IF And32(buf, <<\hff, \hf0, \h00, \h00>>) = <<\h00, \he0, \h00, \h00>> THEN
        [done |-> TRUE,
         cp |-> IF And32(buf, <<\h00, \h00, \hc0, \hc0>>) = <<\h00, \h00, \h80, \h80>>
                THEN CodePoint3(buf) ELSE \hfffd]
    ELSE IF And32(buf, <<\hff, \hff, \he0, \h00>>) = <<\h00, \h00, \hc0, \h00>> THEN
        [done |-> TRUE,
         cp |-> IF And32(buf, <<\h00, \h00, \h00, \hc0>>) = <<\h00, \h00, \h00, \h80>>
                THEN CodePoint2(buf) ELSE \hfffd]
    ELSE IF And32(buf, <<\hff, \hff, \hff, \h80>>) = Zero32 THEN
        [done |-> TRUE, cp |-> Val32(buf)]
    ELSE
        [done |-> FALSE, cp |-> \hfffd]

\* The classification of the buffer after a byte was shifted in: whether it
\* holds a complete character, and the code point (0xfffd by default).
Decode(buf) ==
    IF And32(buf, <<\hf8, \h00, \h00, \h00>>) = <<\hf0, \h00, \h00, \h00>> THEN
        [done |-> TRUE,
         cp |-> IF And32(buf, <<\h00, \hc0, \hc0, \hc0>>) = <<\h00, \h80, \h80, \h80>>
                THEN CodePoint4(buf) ELSE \hfffd]
    ELSE IF And32(buf, <<\hff, \hf0, \h00, \h00>>) = <<\h00, \he0, \h00, \h00>> THEN
        [done |-> TRUE,
         cp |-> IF And32(buf, <<\h00, \h00, \hc0, \hc0>>) = <<\h00, \h00, \h80, \h80>>
                THEN CodePoint3(buf) ELSE \hfffd]
    ELSE IF And32(buf, <<\hff, \hff, \he0, \h00>>) = <<\h00, \h00, \hc0, \h00>> THEN
        [done |-> TRUE,
         cp |-> IF And32(buf, <<\h00, \h00, \h00, \hc0>>) = <<\h00, \h00, \h00, \h80>>
                THEN CodePoint2(buf) ELSE \hfffd]
    ELSE IF And32(buf, <<\hff, \hff, \hff, \h80>>) = Zero32 THEN
        [done |-> TRUE, cp |-> Val32(buf)]
    ELSE
        [done |-> FALSE, cp |-> \hfffd]

---------------------------------------------------------------------------
(* Writing: the glyph mapping of lcd_writeChar *)

\* The explicit cases of the switch; -1 stands for "default:"
GlyphCase(codePoint) ==
    CASE codePoint = \h005c -> LCD_CC_BACKSLASH
      [] codePoint = \h007e -> LCD_CC_TILDE
      [] codePoint = \h009d -> \h5c
      [] codePoint = \h2192 -> \h7e
      [] codePoint = \h2190 -> \h7f
      [] codePoint = \h2092 -> \ha1
      [] codePoint = \h00da -> \ha2
      [] codePoint = \h00d9 -> \ha3
      [] codePoint = \h00b7 -> \ha5
      [] codePoint = \h2203 -> \hae
      [] codePoint = \h018e -> \hae
      [] codePoint = \h25af -> \hdb
      [] codePoint = \h25a1 -> \hdb
      [] codePoint = \h00b0 -> \hdf
      [] codePoint = \h03b1 -> \he0
      [] codePoint = \h00e4 -> \he1
      [] codePoint = \h03b2 -> \he2
      [] codePoint = \h00df -> \he2
      [] codePoint = \h03b5 -> \he3
      [] codePoint = \h0190 -> \he3
      [] codePoint = \h03bc -> \he4
      [] codePoint = \h00b5 -> \he4
      [] codePoint = \h03c3 -> \he5
      [] codePoint = \h03c1 -> \he6
      [] codePoint = \h221a -> \he8
      [] codePoint = \h215f -> \he9
      [] codePoint = \h00a2 -> \hec
      [] codePoint = \h00f1 -> \hee
      [] codePoint = \h00f6 -> \hef
      [] codePoint = \h03b8 -> \hf2
      [] codePoint = \h221e -> \hf3
      [] codePoint = \h03a9 -> \hf4
      [] codePoint = \h00fc -> \hf5
      [] codePoint = \h03a3 -> \hf6
      [] codePoint = \h03c0 -> \hf7
      [] codePoint = \h00f7 -> \hfd
      [] codePoint = \h25ae -> \hff
      [] codePoint = \h25a0 -> \hff
      [] OTHER -> -1

\* LcdCode with the default comparing codePoint < 0x80
LcdCode_asciiOnly(codePoint) ==
    LET listed == GlyphCase(codePoint)
    IN  IF listed # -1 THEN listed
        ELSE IF codePoint < \h80 THEN codePoint ELSE \hff

\* switch(codePoint) { ... default: ... }
LcdCode(codePoint) ==
    LET listed == GlyphCase(codePoint)
    IN  IF listed # -1 THEN listed
        ELSE IF codePoint <= \h80 THEN codePoint ELSE \hff

---------------------------------------------------------------------------
(* Writing: lcd_writeChar *)

\* Newline rolling over to 0 instead of the sentinel 32
Newline_rollToZero(d) ==
    updateCursor([d EXCEPT !.cur = IF @ < 16 THEN 16 ELSE 0])

\* Handle '\n' character
Newline(d) ==
    updateCursor([d EXCEPT !.cur = IF @ < 16 THEN 16 ELSE 32])

\* AutoBreak clearing at position 31 instead of the sentinel 32
AutoBreak_at31(d) ==
    IF d.cur = 31 THEN lcd_clear(d)
    ELSE IF d.cur = 16 THEN lcd_line2(d)
    ELSE d

\* If current line is full, break automatically
AutoBreak(d) ==
    IF d.cur = 32 THEN lcd_clear(d)
    ELSE IF d.cur = 16 THEN lcd_line2(d)
    ELSE d

\* Write character
WriteGlyph(d, codePoint) ==
    [SEND_BYTE(AutoBreak(d), 1, LcdCode(codePoint), 46) EXCEPT !.cur = (@ + 1) % 256]

\* Dispatch with "utf8Buffer = 0" left out
Dispatch_keepBuffer(d, codePoint) ==
    LET d1 == [d EXCEPT !.disp = Append(@, codePoint)]
    IN  IF codePoint = 10 THEN Newline(d1) ELSE WriteGlyph(d1, codePoint)

\* The part of lcd_writeChar after a complete character was found
Dispatch(d, codePoint) ==
    LET d1 == [d EXCEPT !.buf = Zero32, !.disp = Append(@, codePoint)]
    IN  IF codePoint = 10 THEN Newline(d1) ELSE WriteGlyph(d1, codePoint)

\* lcd_writeChar without the early return for an incomplete character
lcd_writeChar_eager(d, character) ==
    LET buf == Shl8Or(d.buf, character % 256)
        r == Decode(buf)
    IN  Dispatch([d EXCEPT !.buf = buf], r.cp)

\* character is a char, cast to uint8_t
lcd_writeChar(d, character) ==
    LET buf == Shl8Or(d.buf, character % 256)
        r == Decode(buf)
    IN  IF r.done THEN Dispatch([d EXCEPT !.buf = buf], r.cp)
        ELSE [d EXCEPT !.buf = buf]

\* string is a sequence of bytes without its terminating 0
RECURSIVE lcd_writeProgString(_, _)
lcd_writeProgString(d, string) ==
    IF Len(string) = 0 THEN d
    ELSE LET d1 == lcd_writeChar(d, Head(string))
         IN  IF d1.cur >= 0 THEN lcd_writeProgString(d1, Tail(string)) ELSE d1

\* PSTR("                ")
Spaces16 ==
    <<\h20, \h20, \h20, \h20, \h20, \h20, \h20, \h20,
      \h20, \h20, \h20, \h20, \h20, \h20, \h20, \h20>>

lcd_erase(d, line) ==
    LET cursorBackup == d.cur
        d1 == lcd_writeProgString(lcd_goto(d, line, 1), Spaces16)
    IN  updateCursor([d1 EXCEPT !.cur = cursorBackup])

---------------------------------------------------------------------------
(* Writing numbers *)

\* lcd_writeHexNibble with upper-case digits
lcd_writeHexNibble_upper(d, number) ==
    LET n == BitAnd(number, \h0f)
    IN  lcd_writeChar(d, IF n <= 9 THEN \h30 + n ELSE \h41 + n - 10)

\* number is a uint8_t
lcd_writeHexNibble(d, number) ==
    LET n == BitAnd(number, \h0f)
    IN  lcd_writeChar(d, IF n <= 9 THEN \h30 + n ELSE \h61 + n - 10)

\* number is a uint8_t
lcd_writeHexByte(d, number) ==
    LET d1 == lcd_writeHexNibble(d, number \div 16)
    IN  lcd_writeHexNibble(d1, BitAnd(number, \h0f))

\* number is a uint16_t; both arguments are converted to uint8_t
lcd_writeHexWord(d, number) ==
    LET d1 == lcd_writeHexByte(d, (number \div 256) % 256)
    IN  lcd_writeHexByte(d1, BitAnd(number, \hff) % 256)

\* while((number >> shift) == 0) shift -= 4;  -- shift is an int8_t
RECURSIVE HexShift(_, _)
HexShift(number, shift) ==
    IF number \div (2 ^ shift) = 0 THEN HexShift(number, shift - 4) ELSE shift

\* while(shift >= 0) { lcd_writeHexNibble((number >> shift) & 0xf); shift -= 4; }
RECURSIVE HexNibbles(_, _, _)
HexNibbles(d, number, shift) ==
    IF shift < 0 THEN d
    ELSE LET d1 == lcd_writeHexNibble(d, BitAnd(number \div (2 ^ shift), \h0f))
         IN  IF d1.cur >= 0 THEN HexNibbles(d1, number, shift - 4) ELSE d1

\* number is a uint16_t
lcd_writeHex(d, number) ==
    IF number = 0 THEN lcd_writeChar(d, \h30)
    ELSE HexNibbles(d, number, HexShift(number, 8 * 2 - 4))

\* uint16_t
Words == 0..65535

\* x / 0 on uint16_t is undefined: what the division may yield (avr-libc's
\* __udivmodhi4 yields 0xffff).  Only lcd_writeDec(0) reaches mask = 0: for
\* number > 0 the first loop stops at a mask <= number.
DivZeroQuotients == {0, 1, \hffff}

\* while(number / mask == 0) mask /= 10;  -- q is what number / 0 yields.
\* With q = 0 the loop goes on with mask = 0 / 10 = 0 and does not end.
RECURSIVE DecMask(_, _, _)
DecMask(number, mask, q) ==
    IF mask = 0 THEN [mask |-> 0, fault |-> [div0 |-> TRUE, hang |-> (q = 0)]]
    ELSE IF number \div mask = 0 THEN DecMask(number, mask \div 10, q)
    ELSE [mask |-> mask, fault |-> [div0 |-> FALSE, hang |-> FALSE]]

\* while(mask) { lcd_writeChar('0' + number / mask); number %= mask; mask /= 10; }
RECURSIVE DecDigits(_, _, _)
DecDigits(d, number, mask) ==
    IF mask = 0 THEN d
    ELSE LET d1 == lcd_writeChar(d, \h30 + (number \div mask))
         IN  IF d1.cur >= 0 THEN DecDigits(d1, number % mask, mask \div 10) ELSE d1

\* number is a uint16_t; the result is the driver record and what went wrong
lcd_writeDec(d, number, q) ==
    LET d0 == IF number = 0 THEN lcd_writeChar(d, \h30) ELSE d
        m == DecMask(number, 10000, q)
    IN  [d |-> IF m.fault.hang THEN d0 ELSE DecDigits(d0, number, m.mask),
         fault |-> m.fault]

\* (uint16_t)((uint32_t)voltage * 1000 * voltUpperBound / valueUpperBound)
\* for valueUpperBound > 0; the 32-bit product is kept as two 16-bit halves
\* hi and lo, and the cast keeps the low 16 bits of the long division of
\* hi * 65536 + lo, to which the quotient of hi contributes nothing
Millivolts(voltage, valueUpperBound, voltUpperBound) ==
    LET a == voltage * 1000
        low == (a % 65536) * voltUpperBound
        lo == low % 65536
        hi == ((a \div 65536) * voltUpperBound + (low \div 65536)) % 65536
        r0 == hi % valueUpperBound
        r1 == r0 * 256 + (lo \div 256)
        r2 == (r1 % valueUpperBound) * 256 + (lo % 256)
    IN  ((r1 \div valueUpperBound) * 256 + (r2 \div valueUpperBound)) % 65536

\* The result is the driver record and what went wrong in lcd_writeDec
lcd_writeVoltage(d, voltage, valueUpperBound, voltUpperBound, q) ==
    LET millivolts == Millivolts(voltage, valueUpperBound, voltUpperBound)
        integer == millivolts \div 1000
        m1 == (millivolts - integer * 1000) % 65536
        fraction1 == (m1 \div 100) % 256
        m2 == (m1 - 100 * fraction1) % 65536
        fraction2 == (m2 \div 10) % 256
        m3 == (m2 - 10 * fraction2) % 65536
        fraction3 == m3 % 256
        w == lcd_writeDec(d, integer, q)
        d1 == lcd_writeChar(w.d, \h2e)
        d2 == lcd_writeChar(d1, \h30 + fraction1)
        d3 == lcd_writeChar(d2, \h30 + fraction2)
        d4 == lcd_writeChar(d3, \h30 + fraction3)
    IN  [d |-> IF w.fault.hang THEN w.d ELSE lcd_writeChar(d4, \h56),
         fault |-> w.fault]

\* PSTR("▮"), U+25AE in UTF-8
BlockString == <<\he2, \h96, \hae>>

\* while(percent--) lcd_writeProgString(PSTR("▮"));
RECURSIVE BarBlocks(_, _)
BarBlocks(d, percent) ==
    IF percent = 0 THEN d
    ELSE LET d1 == lcd_writeProgString(d, BlockString)
         IN  IF d1.cur >= 0 THEN BarBlocks(d1, percent - 1) ELSE d1

\* while(lcdCursor < 16) lcd_writeChar(' ');
RECURSIVE BarSpaces(_)
BarSpaces(d) ==
    IF d.cur < 16 THEN BarSpaces(lcd_writeChar(d, \h20)) ELSE d

\* lcd_drawBar without "if(percent > 100) percent = 100"
lcd_drawBar_noclamp(d, percent) ==
    LET scaled == (((percent * 16) % 65536) \div 100) % 256
    IN  lcd_erase(BarSpaces(BarBlocks(lcd_line1(d), scaled)), 2)

\* The state in which "while(lcdCursor < 16) lcd_writeChar(' ');" ends, or,
\* with a cursor below 16, the state a call of lcd_writeChar(' ') leaves as
\* it is: from there the loop repeats itself for ever
RECURSIVE BarSpacesEnd(_)
BarSpacesEnd(d) ==
    IF d.cur >= 16 THEN d
    ELSE LET d1 == lcd_writeChar(d, \h20)
         IN  IF d1.cur = d.cur /\ d1.buf = d.buf THEN d ELSE BarSpacesEnd(d1)

\* Transform linearly from [0;100] to [0;16]; percent is a uint8_t
BarScale(percent) ==
    LET clamped == IF percent > 100 THEN 100 ELSE percent
    IN  (((clamped * 16) % 65536) \div 100) % 256

lcd_drawBar(d, percent) ==
    lcd_erase(BarSpaces(BarBlocks(lcd_line1(d), BarScale(percent))), 2)

---------------------------------------------------------------------------
(* Custom characters *)

\* SendBitmap sending the highest byte first
RECURSIVE SendBitmap_highFirst(_, _)
SendBitmap_highFirst(d, chr) ==
    IF chr = <<>> THEN d
    ELSE SEND_BYTE(SendBitmap_highFirst(d, Tail(chr)), 1, Head(chr), 46)

\* for(i = 0; i < 8; i++) { SEND_BYTE(1, (uint8_t)chr, 46); chr >>= 8; }
RECURSIVE SendBitmap(_, _)
SendBitmap(d, chr) ==
    IF chr = <<>> THEN d
    ELSE SendBitmap(SEND_BYTE(d, 1, Head(chr), 46), Tail(chr))

\* lcd_registerCustomChar without the final updateCursor()
lcd_registerCustomChar_inCGRAM(d, addr, chr) ==
    SendBitmap(SEND_BYTE(d, 0, BitOr(\h40, 8 * addr), 42), chr)

\* addr is a uint8_t, chr the eight bytes of a uint64_t, lowest first
lcd_registerCustomChar(d, addr, chr) ==
    updateCursor(SendBitmap(SEND_BYTE(d, 0, BitOr(\h40, 8 * addr), 42), chr))

---------------------------------------------------------------------------
(* Initialisation *)

\* delayMs / _delay_us on its own
Delay(d, us) ==
    [d EXCEPT !.out = Append(@, [k |-> "delay", rs |-> 0, c |-> 0, delay |-> us])]

\* The homing sequence waiting only 100 us after the first nibble
HomingSequence_shortWait(d) ==
    Nibble(Nibble(Nibble(Nibble(Delay(d, 15000), 0, 3, 100), 0, 3, 100), 0, 3, 100),
           0, 2, 42)

\* The homing sequence with only two 0011 nibbles
HomingSequence_two(d) ==
    Nibble(Nibble(Nibble(Delay(d, 15000), 0, 3, 5000), 0, 3, 100), 0, 2, 42)

HomingSequence(d) ==
    Nibble(Nibble(Nibble(Nibble(Delay(d, 15000), 0, 3, 5000), 0, 3, 100), 0, 3, 100),
           0, 2, 42)

\* lcd_init switching the display on before clearing it
lcd_init_onFirst(d) ==
    LET d1 == SEND_BYTE(HomingSequence(d), 0, \h28, 42)
        d2 == SEND_BYTE(d1, 0, \h0c, 42)
        d3 == lcd_clear(d2)
        d4 == SEND_BYTE(d3, 0, \h06, 42)
        d5 == SEND_BYTE(d4, 0, \h08, 42)
        d6 == lcd_registerCustomChar(d5, LCD_CC_TILDE, LCD_CC_TILDE_BITMAP)
    IN  lcd_registerCustomChar(d6, LCD_CC_BACKSLASH, LCD_CC_BACKSLASH_BITMAP)

lcd_init(d) ==
    LET d1 == SEND_BYTE(HomingSequence(d), 0, \h28, 42)
        d2 == SEND_BYTE(d1, 0, \h08, 42)
        d3 == lcd_clear(d2)
        d4 == SEND_BYTE(d3, 0, \h06, 42)
        d5 == SEND_BYTE(d4, 0, \h0c, 42)
        d6 == lcd_registerCustomChar(d5, LCD_CC_TILDE, LCD_CC_TILDE_BITMAP)
    IN  lcd_registerCustomChar(d6, LCD_CC_BACKSLASH, LCD_CC_BACKSLASH_BITMAP)

---------------------------------------------------------------------------
(* The controller: what the HD44780 does with the bytes it receives, as    *)
(* the driver's comments state it (two-line mode, address counter          *)
(* incrementing after every data write).                                   *)

DDRAM(addr) == [ram |-> "DDRAM", addr |-> addr]

CGRAM(addr) == [ram |-> "CGRAM", addr |-> addr]

\* The address counter after a data write
Increment(a) ==
    IF a.ram = "CGRAM" THEN CGRAM((a.addr + 1) % 64)
    ELSE IF a.addr = \h27 THEN DDRAM(\h40)
    ELSE IF a.addr = \h67 THEN DDRAM(\h00)
    ELSE DDRAM(a.addr + 1)

\* The address counter after a byte written to the instruction register
Command(a, c) ==
    IF c >= \h80 THEN DDRAM(c - \h80)          \* Set DDRAM address
    ELSE IF c >= \h40 THEN CGRAM(c - \h40)     \* Set CGRAM address
    ELSE IF c = \h01 THEN DDRAM(\h00)          \* Clear display
    ELSE IF c \in {\h02, \h03} THEN DDRAM(\h00) \* Return home
    ELSE a

\* The controller executing the transfers of one call: the final address
\* counter and the cells written, in order
RECURSIVE Controller(_, _, _)
Controller(a, cells, sends) ==
    IF sends = <<>> THEN [ac |-> a, stored |-> cells]
    ELSE LET e == Head(sends) IN
         IF e.k # "byte" THEN Controller(a, cells, Tail(sends))
         ELSE IF e.rs = 0 THEN Controller(Command(a, e.c), cells, Tail(sends))
         ELSE Controller(Increment(a),
                         Append(cells, [ram |-> a.ram, addr |-> a.addr, val |-> e.c]),
                         Tail(sends))

---------------------------------------------------------------------------
(* Arguments the actions draw from *)

GotoRows == {0, 1, 2, 3}

GotoCols == {0, 1, 16, 20}

MoveRows == {-1, 0, 1}

MoveCols == {-15, 0, 5, 15}

EraseLines == {1, 2}

\* '\n', 'A', and the lead byte of a two-byte sequence
WriteBytes == {\h0a, \h41, \hc3}

CustomAddrs == {7, 9}

Bitmaps == {LCD_CC_TILDE_BITMAP, <<\h04, \h04, \h04, \h04, \h04, \h04, \h04, \h00>>}

---------------------------------------------------------------------------
(* Actions: one per public function *)

\* The driver record a call starts from
D == [cur |-> lcdCursor, buf |-> utf8Buffer, out |-> <<>>, disp |-> <<>>]

\* The call `op(args)` returning the driver record r
Apply(op, args, r) ==
    /\ r.cur <= MaxCursor
    /\ lcdCursor' = r.cur
    /\ utf8Buffer' = r.buf
    /\ out' = r.out
    /\ disp' = r.disp
    /\ LET c == Controller(ac, <<>>, r.out)
       IN  ac' = c.ac /\ stored' = c.stored
    /\ call' = [op |-> op, args |-> args, cursor0 |-> lcdCursor]

Call_lcd_init ==
    /\ Apply("lcd_init", <<>>, lcd_init(D))
    /\ ready' = TRUE
    /\ UNCHANGED harnessVars

Call_lcd_line1 ==
    /\ ready
    /\ Apply("lcd_line1", <<>>, lcd_line1(D))
    /\ UNCHANGED <<ready, harnessVars>>

Call_lcd_line2 ==
    /\ ready
    /\ Apply("lcd_line2", <<>>, lcd_line2(D))
    /\ UNCHANGED <<ready, harnessVars>>

Call_lcd_goto ==
    /\ ready
    /\ \E row \in GotoRows, column \in GotoCols :
          Apply("lcd_goto", <<row, column>>, lcd_goto(D, row, column))
    /\ UNCHANGED <<ready, harnessVars>>

Call_lcd_move ==
    /\ ready
    /\ \E row \in MoveRows, column \in MoveCols :
          Apply("lcd_move", <<row, column>>, lcd_move(D, row, column))
    /\ UNCHANGED <<ready, harnessVars>>

Call_lcd_back ==
    /\ ready
    /\ Apply("lcd_back", <<>>, lcd_back(D))
    /\ UNCHANGED <<ready, harnessVars>>

Call_lcd_home ==
    /\ ready
    /\ Apply("lcd_home", <<>>, lcd_home(D))
    /\ UNCHANGED <<ready, harnessVars>>

Call_lcd_forward ==
    /\ ready
    /\ Apply("lcd_forward", <<>>, lcd_forward(D))
    /\ UNCHANGED <<ready, harnessVars>>

Call_lcd_clear ==
    /\ ready
    /\ Apply("lcd_clear", <<>>, lcd_clear(D))
    /\ UNCHANGED <<ready, harnessVars>>

Call_lcd_erase ==
    /\ ready
    /\ \E line \in EraseLines : Apply("lcd_erase", <<line>>, lcd_erase(D, line))
    /\ UNCHANGED <<ready, harnessVars>>

Call_lcd_writeChar ==
    /\ ready
    /\ \E character \in WriteBytes :
          Apply("lcd_writeChar", <<character>>, lcd_writeChar(D, character))
    /\ UNCHANGED <<ready, harnessVars>>

Call_lcd_registerCustomChar ==
    /\ ready
    /\ \E addr \in CustomAddrs, chr \in Bitmaps :
          Apply("lcd_registerCustomChar", <<addr, chr>>,
                lcd_registerCustomChar(D, addr, chr))
    /\ UNCHANGED <<ready, harnessVars>>

---------------------------------------------------------------------------
(* The driver under any sequence of public calls *)

\* What the controller's address counter may hold before lcd_init
PowerOnCounters == {DDRAM(\h00), DDRAM(\h4f), CGRAM(\h08)}

\* No division by zero, no endless loop
NoFault == [div0 |-> FALSE, hang |-> FALSE]

\* The interface after the homing sequence: 4-bit mode, awaiting a high nibble
Synchronised == [mode |-> 4, phase |-> "high", high |-> 0]

\* The data lines of the LCD
DataLines == {"DB4", "DB5", "DB6", "DB7"}

\* The port pins of RS, EN and R/W in lcd.h, as <<port, bit>>
ControlPins == {<<"A", 4>>, <<"A", 5>>, <<"A", 6>>}

\* The port pins of the data lines in lcd.h
ShippedWiring ==
    [DB4 |-> <<"A", 0>>, DB5 |-> <<"A", 1>>, DB6 |-> <<"A", 2>>, DB7 |-> <<"A", 3>>]

\* The port pins of the data lines under the wiring w
DataPins(w) == {w[l] : l \in DataLines}

\* The pins as lcd_init configures them under the wiring w (all outputs, all
\* low), outside any transfer; ddr is the set of pins whose DDR bit is set,
\* timeout 0 stands for LCD_BUSY_TIMEOUT not being defined
BusReset(w) ==
    [timeout |-> 0, at |-> 1, pc |-> "idle", half |-> "high",
     rs |-> 0, rw |-> 0, en |-> 0, db |-> 0,
     wiring |-> w, ddr |-> ControlPins \cup DataPins(w),
     I |-> FALSE, sreg |-> FALSE, attempts |-> 0, samples |-> <<>>,
     pulses |-> <<>>, moved |-> FALSE, irq |-> FALSE, paced |-> "none",
     waited |-> 0, exec |-> 0, early |-> FALSE]

\* The pins in the configuration of lcd.h
BusIdle == BusReset(ShippedWiring)

ProbeIdle ==
    /\ iface = Synchronised
    /\ decoded = <<>>
    /\ fault = NoFault
    /\ bus = BusIdle

HarnessIdle ==
    /\ ProbeIdle
    /\ feed = <<>>
    /\ feedCp = -1
    /\ pos = 0
    /\ feedStart = 0
    /\ feedDisp = <<>>
    /\ feedData = <<>>
    /\ run = 0
    /\ runNl = FALSE

Init ==
    /\ ready = FALSE
    /\ lcdCursor = 0
    /\ utf8Buffer = Zero32
    /\ ac \in PowerOnCounters
    /\ call = [op |-> "reset", args |-> <<>>, cursor0 |-> 0]
    /\ out = <<>>
    /\ disp = <<>>
    /\ stored = <<>>
    /\ HarnessIdle

Next ==
    \/ Call_lcd_init
    \/ Call_lcd_line1
    \/ Call_lcd_line2
    \/ Call_lcd_goto
    \/ Call_lcd_move
    \/ Call_lcd_back
    \/ Call_lcd_home
    \/ Call_lcd_forward
    \/ Call_lcd_clear
    \/ Call_lcd_erase
    \/ Call_lcd_writeChar
    \/ Call_lcd_registerCustomChar

Spec == Init /\ [][Next]_vars

---------------------------------------------------------------------------
(* What a call put on the bus *)

\* The bytes written to the data register, in order
RECURSIVE DataBytes(_)
DataBytes(sends) ==
    IF sends = <<>> THEN <<>>
    ELSE IF Head(sends).k = "byte" /\ Head(sends).rs = 1
         THEN <<Head(sends).c>> \o DataBytes(Tail(sends))
         ELSE DataBytes(Tail(sends))

\* The bytes written to the instruction register, in order
RECURSIVE Commands(_)
Commands(sends) ==
    IF sends = <<>> THEN <<>>
    ELSE IF Head(sends).k = "byte" /\ Head(sends).rs = 0
         THEN <<Head(sends).c>> \o Commands(Tail(sends))
         ELSE Commands(Tail(sends))

\* A clear-display command is among the transfers
Clears(sends) == \E i \in 1..Len(sends) : sends[i] = [k |-> "byte", rs |-> 0, c |-> 1, delay |-> 1640]

---------------------------------------------------------------------------
(* Harness states: the driver after lcd_init, and after a following lcd_goto *)

ResetD == [cur |-> 0, buf |-> Zero32, out |-> <<>>, disp |-> <<>>]

\* The state lcd_init() leaves when it is the first call
AfterInit ==
    LET r == lcd_init(ResetD)
        c == Controller(DDRAM(\h00), <<>>, r.out)
    IN  /\ ready = TRUE
        /\ lcdCursor = r.cur
        /\ utf8Buffer = r.buf
        /\ out = r.out
        /\ disp = r.disp
        /\ ac = c.ac
        /\ stored = c.stored
        /\ call = [op |-> "lcd_init", args |-> <<>>, cursor0 |-> 0]

\* The state lcd_init(); lcd_goto(row, column) leaves
AfterGoto(row, column) ==
    LET r0 == lcd_init(ResetD)
        r == lcd_goto([r0 EXCEPT !.out = <<>>], row, column)
        c == Controller(DDRAM(\h00), <<>>, r.out)
    IN  /\ ready = TRUE
        /\ lcdCursor = r.cur
        /\ utf8Buffer = r.buf
        /\ out = r.out
        /\ disp = r.disp
        /\ ac = c.ac
        /\ stored = c.stored
        /\ call = [op |-> "lcd_goto", args |-> <<row, column>>, cursor0 |-> r0.cur]

---------------------------------------------------------------------------
(* Page-break harness: single-byte characters written in a row after       *)
(* lcd_init, as in part 5 of Tests/LCD/main.c                              *)

\* '\n', 'a', '~'
PageBytes == {\h0a, \h61, \h7e}

InitPage ==
    /\ AfterInit
    /\ ProbeIdle
    /\ feed = <<>>
    /\ feedCp = -1
    /\ pos = 0
    /\ feedStart = 0
    /\ feedDisp = <<>>
    /\ feedData = <<>>
    /\ run = 0
    /\ runNl = FALSE

PageWrite ==
    /\ run < MaxRun
    /\ \E character \in PageBytes :
          /\ Apply("lcd_writeChar", <<character>>, lcd_writeChar(D, character))
          /\ runNl' = (runNl \/ character = \h0a)
    /\ run' = run + 1
    /\ UNCHANGED <<ready, feed, feedCp, pos, feedStart, feedDisp, feedData, probeVars>>

NextPage == PageWrite

SpecPage == InitPage /\ [][NextPage]_vars

---------------------------------------------------------------------------
(* Feeding harness: a byte string fed to lcd_writeChar one byte per call,  *)
(* from an empty accumulator, after lcd_init and lcd_goto                  *)

\* A reference UTF-8 encoder (RFC 3629)
Utf8Encode(cp) ==
    IF cp < \h80 THEN <<cp>>
    ELSE IF cp < \h800 THEN <<\hc0 + (cp \div 64), \h80 + (cp % 64)>>
    ELSE IF cp < \h10000 THEN
        <<\he0 + (cp \div 4096), \h80 + ((cp \div 64) % 64), \h80 + (cp % 64)>>
    ELSE <<\hf0 + (cp \div 262144), \h80 + ((cp \div 4096) % 64),
           \h80 + ((cp \div 64) % 64), \h80 + (cp % 64)>>

\* The code points fed: U+0000..U+00FF, every code point the switch of
\* lcd_writeChar names, and the ends of the 2-, 3- and 4-byte ranges
FeedCodePoints ==
    (0..\hff)
    \cup {\h018e, \h0190, \h03a3, \h03a9, \h03b1, \h03b2, \h03b5, \h03b8, \h03bc,
          \h03c0, \h03c1, \h03c3, \h2092, \h215f, \h217a, \h2190, \h2192, \h2203,
          \h221a, \h221e, \h25a0, \h25a1, \h25ae, \h25af}
    \cup {\h07ff, \h0800, \h0fff, \h1000, \hd7ff, \he000, \hfffd, \hffff,
          \h10000, \h1f600, \hfffff, \h100000, \h10ffff}

\* 'A' followed by U+2190, as bytes
ArrowScenario == <<\h41, \he2, \h86, \h90>>

\* Byte strings that are not the encoding of one code point
FeedStrings ==
    {ArrowScenario,
     <<\h80>>, <<\hbf, \h41>>, <<\hf8>>, <<\hff, \h41, \h41, \h41, \h41>>,
     <<\hc3, \h41>>, <<\he2, \h41, \h41>>, <<\hf0, \h41, \h41, \h41>>,
     <<\he2, \h86, \h41>>, <<\hf0, \h9f, \h98, \hff>>}

InitFeed ==
    /\ \E row \in 1..2, column \in 1..16 : AfterGoto(row, column)
    /\ ProbeIdle
    /\ \/ \E cp \in FeedCodePoints : feedCp = cp /\ feed = Utf8Encode(cp)
       \/ feedCp = -1 /\ feed \in FeedStrings
    /\ pos = 0
    /\ feedStart = lcdCursor
    /\ feedDisp = <<>>
    /\ feedData = <<>>
    /\ run = 0
    /\ runNl = FALSE

FeedByte ==
    /\ pos < Len(feed)
    /\ Apply("lcd_writeChar", <<feed[pos + 1]>>, lcd_writeChar(D, feed[pos + 1]))
    /\ pos' = pos + 1
    /\ feedDisp' = feedDisp \o disp'
    /\ feedData' = feedData \o DataBytes(out')
    /\ UNCHANGED <<ready, feed, feedCp, feedStart, run, runNl, probeVars>>

NextFeed == FeedByte

SpecFeed == InitFeed /\ [][NextFeed]_vars

---------------------------------------------------------------------------
(* Argument harnesses: one public call after lcd_init, with its arguments  *)
(* drawn from their whole C type                                           *)

\* unsigned char, uint8_t
UnsignedChars == 0..255

\* The harness variables a single call leaves alone
callFrame == <<ready, feed, feedCp, pos, feedStart, feedDisp, feedData, runNl,
               iface, decoded, bus>>

\* lcd_init(), then the state of every cursor position lcd_goto can set
InitPositioned ==
    /\ \/ AfterInit
       \/ \E row \in 1..2, column \in 1..16 : AfterGoto(row, column)
    /\ HarnessIdle

InitGoto == AfterInit /\ HarnessIdle

GotoAny ==
    /\ run = 0
    /\ \E row \in UnsignedChars, column \in UnsignedChars :
          Apply("lcd_goto", <<row, column>>, lcd_goto(D, row, column))
    /\ run' = 1
    /\ UNCHANGED <<callFrame, fault>>

NextGoto == GotoAny

SpecGoto == InitGoto /\ [][NextGoto]_vars

---------------------------------------------------------------------------
(* Homing harness: the controller's bus interface receiving the transfers  *)
(* of lcd_init one enable pulse at a time, from every state the comments   *)
(* of lcd_init name (a: 8-bit mode, b: 4-bit mode awaiting the upper half  *)
(* of a byte, c: 4-bit mode awaiting the lower half)                       *)

PowerOnInterfaces ==
    {[mode |-> 8, phase |-> "high", high |-> 0],
     [mode |-> 4, phase |-> "high", high |-> 0]}
    \cup {[mode |-> 4, phase |-> "low", high |-> h] : h \in 0..15}

\* The enable pulses of a list of transfers: sendNibble is one pulse,
\* sendByte the upper nibble and then the lower nibble
RECURSIVE NibbleStream(_)
NibbleStream(sends) ==
    IF sends = <<>> THEN <<>>
    ELSE LET e == Head(sends) IN
         IF e.k = "nibble" THEN <<[rs |-> e.rs, n |-> e.c]>> \o NibbleStream(Tail(sends))
         ELSE IF e.k = "byte"
              THEN <<[rs |-> e.rs, n |-> e.c \div 16], [rs |-> e.rs, n |-> e.c % 16]>>
                   \o NibbleStream(Tail(sends))
         ELSE NibbleStream(Tail(sends))

\* The bytes sendByte sent, with their register
RECURSIVE ByteStream(_)
ByteStream(sends) ==
    IF sends = <<>> THEN <<>>
    ELSE IF Head(sends).k = "byte"
         THEN <<[rs |-> Head(sends).rs, c |-> Head(sends).c]>> \o ByteStream(Tail(sends))
         ELSE ByteStream(Tail(sends))

\* The interface after executing the byte c written to register rs:
\* "Function set" 0 0 1 DL N F * * selects 8-bit mode with DL = 1 and 4-bit
\* mode with DL = 0; nothing else changes the mode
Executed(mode, rs, c) ==
    IF rs = 0 /\ c \div 32 = 1
    THEN [mode |-> IF (c \div 16) % 2 = 1 THEN 8 ELSE 4, phase |-> "high", high |-> 0]
    ELSE [mode |-> mode, phase |-> "high", high |-> 0]

\* One enable pulse with the nibble n on DB7:4.  In 8-bit mode the pulse is
\* a whole byte whose lower half is not driven (recorded as 0); in 4-bit
\* mode two pulses make a byte.
Receive(st, rs, n) ==
    IF st.mode = 8 THEN [iface |-> Executed(8, rs, n * 16), bytes |-> <<[rs |-> rs, c |-> n * 16]>>]
    ELSE IF st.phase = "high"
         THEN [iface |-> [mode |-> 4, phase |-> "low", high |-> n], bytes |-> <<>>]
    ELSE [iface |-> Executed(4, rs, st.high * 16 + n),
          bytes |-> <<[rs |-> rs, c |-> st.high * 16 + n]>>]

InitHoming ==
    /\ AfterInit
    /\ iface \in PowerOnInterfaces
    /\ decoded = <<>>
    /\ fault = NoFault
    /\ bus = BusIdle
    /\ feed = <<>>
    /\ feedCp = -1
    /\ pos = 0
    /\ feedStart = 0
    /\ feedDisp = <<>>
    /\ feedData = <<>>
    /\ run = 0
    /\ runNl = FALSE

Pulse ==
    /\ pos < Len(NibbleStream(out))
    /\ LET e == NibbleStream(out)[pos + 1]
           r == Receive(iface, e.rs, e.n)
       IN  iface' = r.iface /\ decoded' = decoded \o r.bytes
    /\ pos' = pos + 1
    /\ UNCHANGED <<ready, lcdCursor, utf8Buffer, ac, call, out, disp, stored,
                   feed, feedCp, feedStart, feedDisp, feedData, run, runNl, fault,
                   bus>>

NextHoming == Pulse

SpecHoming == InitHoming /\ [][NextHoming]_vars

---------------------------------------------------------------------------
(* Custom-character harness: lcd_registerCustomChar with any uint8_t addr  *)

\* uint64_t chr: the tilde, a frame of the animation of Tests/LCD/main.c,
\* and a value with eight different bytes
CustomBitmaps ==
    {LCD_CC_TILDE_BITMAP,
     <<\h10, \h10, \h08, \h04, \h02, \h01, \h01, \h00>>,
     <<\h01, \h02, \h04, \h08, \h10, \h20, \h40, \h80>>}

InitCustom == InitPositioned

CustomAny ==
    /\ run = 0
    /\ \E addr \in UnsignedChars, chr \in CustomBitmaps :
          Apply("lcd_registerCustomChar", <<addr, chr>>,
                lcd_registerCustomChar(D, addr, chr))
    /\ run' = 1
    /\ UNCHANGED <<callFrame, fault>>

NextCustom == CustomAny

SpecCustom == InitCustom /\ [][NextCustom]_vars

---------------------------------------------------------------------------
(* Number harness: lcd_writeDec with any uint16_t, after lcd_init and near *)
(* the end of the second line                                              *)

InitDec ==
    /\ AfterInit \/ AfterGoto(2, 14)
    /\ HarnessIdle

WriteDecAny ==
    /\ run = 0
    /\ \E number \in Words :
       \E q \in (IF number = 0 THEN DivZeroQuotients ELSE {0}) :
          LET r == lcd_writeDec(D, number, q)
          IN  /\ Apply("lcd_writeDec", <<number>>, r.d)
              /\ fault' = r.fault
    /\ run' = 1
    /\ UNCHANGED callFrame

NextDec == WriteDecAny

SpecDec == InitDec /\ [][NextDec]_vars

---------------------------------------------------------------------------
(* Hexadecimal harness: the four hexadecimal writers with any argument of  *)
(* their type, after lcd_init                                              *)

InitHex == AfterInit /\ HarnessIdle

WriteHexNibbleAny ==
    /\ run = 0
    /\ \E number \in UnsignedChars :
          Apply("lcd_writeHexNibble", <<number>>, lcd_writeHexNibble(D, number))
    /\ run' = 1
    /\ UNCHANGED <<callFrame, fault>>

WriteHexByteAny ==
    /\ run = 0
    /\ \E number \in UnsignedChars :
          Apply("lcd_writeHexByte", <<number>>, lcd_writeHexByte(D, number))
    /\ run' = 1
    /\ UNCHANGED <<callFrame, fault>>

WriteHexWordAny ==
    /\ run = 0
    /\ \E number \in Words :
          Apply("lcd_writeHexWord", <<number>>, lcd_writeHexWord(D, number))
    /\ run' = 1
    /\ UNCHANGED <<callFrame, fault>>

WriteHexAny ==
    /\ run = 0
    /\ \E number \in Words : Apply("lcd_writeHex", <<number>>, lcd_writeHex(D, number))
    /\ run' = 1
    /\ UNCHANGED <<callFrame, fault>>

NextHex ==
    \/ WriteHexNibbleAny
    \/ WriteHexByteAny
    \/ WriteHexWordAny
    \/ WriteHexAny

SpecHex == InitHex /\ [][NextHex]_vars

---------------------------------------------------------------------------
(* Bar graph harness: lcd_drawBar with any percentage, from three cursor   *)
(* positions with an empty accumulator                                     *)

InitBar ==
    /\ AfterInit \/ AfterGoto(1, 9) \/ AfterGoto(2, 16)
    /\ HarnessIdle

DrawBarAny ==
    /\ run = 0
    /\ \E percent \in UnsignedChars :
          Apply("lcd_drawBar", <<percent>>, lcd_drawBar(D, percent))
    /\ run' = 1
    /\ UNCHANGED <<callFrame, fault>>

NextBar == DrawBarAny

SpecBar == InitBar /\ [][NextBar]_vars

---------------------------------------------------------------------------
(* Voltage harness: lcd_writeVoltage after lcd_init with readings below    *)
(* their upper bound                                                       *)

Readings == {0, 1, 2, 100, 511, 512, 1023, 4095, 30000, 65534}

ReadingBounds == {1, 256, 1024, 4096, 65535}

ReferenceVoltages == {0, 1, 3, 5, 12, 66, 255}

InitVolt == AfterInit /\ HarnessIdle

WriteVoltageAny ==
    /\ run = 0
    /\ \E voltage \in Readings, valueUpperBound \in ReadingBounds,
          voltUpperBound \in ReferenceVoltages :
       \E q \in (IF Millivolts(voltage, valueUpperBound, voltUpperBound) < 1000
                 THEN DivZeroQuotients ELSE {0}) :
          LET r == lcd_writeVoltage(D, voltage, valueUpperBound, voltUpperBound, q)
          IN  /\ voltage < valueUpperBound
              /\ Apply("lcd_writeVoltage",
                       <<voltage, valueUpperBound, voltUpperBound>>, r.d)
              /\ fault' = r.fault
    /\ run' = 1
    /\ UNCHANGED callFrame

NextVolt == WriteVoltageAny

SpecVolt == InitVolt /\ [][NextVolt]_vars

---------------------------------------------------------------------------
(* Bus harness: the transfers of lcd_init, and then of one lcd_writeChar,  *)
(* carried out on the pins statement by statement, with LCD_BUSY_TIMEOUT   *)
(* not defined or defined, and interrupts enabled or not                   *)

\* The largest LCD_BUSY_TIMEOUT explored
MaxBudget == 3

\* LCD_BUSY_TIMEOUT: 0 for "not defined", else the number of attempts
BusyTimeouts == 0..MaxBudget

\* The transfer the pins are working on
Entry == out[bus.at]

\* The first statement of transfer number `at` of sends: a delay on its own,
\* sendNibble called by lcd_init, or sendByte
StartPc(sends, at) ==
    IF at > Len(sends) THEN "idle"
    ELSE IF sends[at].k = "delay" THEN "wait"
    ELSE IF sends[at].k = "nibble" THEN "setup"
    ELSE "enter"

\* The bus record before transfer number `at` of sends, with nothing
\* observed of that transfer yet
Begin(b, sends, at) ==
    [b EXCEPT !.at = at, !.pc = StartPc(sends, at), !.half = "high",
              !.attempts = 0, !.samples = <<>>, !.pulses = <<>>,
              !.irq = FALSE, !.paced = "none", !.waited = 0]

\* A write to the port bits of RS and DB7..DB4; moved records a change of
\* these lines while EN is high
SetLines(b, rs, db) ==
    [b EXCEPT !.rs = rs, !.db = db,
              !.moved = @ \/ (b.en = 1 /\ (b.rs # rs \/ b.db # db))]

\* The pins the busy-poll statements address: for each data line the bit
\* DBx_PIN, in the registers DB4_REG_PORT and DB4_REG_DDR
PollPins(w) == {<<w.DB4[1], w[l][2]>> : l \in DataLines}

\* The port bit of the line l after the pull-ups were switched on, as its
\* weight in the nibble DB7..DB4
PullUp(b, l, weight) ==
    IF b.wiring[l] \in PollPins(b.wiring) THEN weight
    ELSE BitAnd(b.db, weight)

\* The port bits of the four data lines after the pull-ups were switched on
PulledUp(b) ==
    PullUp(b, "DB4", 1) + PullUp(b, "DB5", 2) + PullUp(b, "DB6", 4)
      + PullUp(b, "DB7", 8)

\* The data lines are all outputs, all inputs, or some of each
DataDirection(b) ==
    IF DataPins(b.wiring) \subseteq b.ddr THEN "out"
    ELSE IF DataPins(b.wiring) \cap b.ddr = {} THEN "in"
    ELSE "mixed"

\* sendByte with the lower nibble sent first
NibbleOf_lowFirst(e, half) ==
    IF e.k = "nibble" THEN e.c
    ELSE IF half = "high" THEN BitAnd(e.c, \h0f) ELSE e.c \div 16

\* The argument of sendNibble: lcd_init's own nibble, or c >> 4 and then
\* c & 0x0f in sendByte
NibbleOf(e, half) ==
    IF e.k = "nibble" THEN e.c
    ELSE IF half = "high" THEN e.c \div 16 ELSE BitAnd(e.c, \h0f)

\* What follows the return of sendNibble
AfterNibble(e, half, timeout) ==
    IF e.k = "nibble" THEN "wait"
    ELSE IF half = "high" THEN "setup"
    ELSE IF timeout > 0 THEN "poll" ELSE "exit"

\* The loop condition with <= for <
PollAgain_inclusive(attempts, timeout) == attempts <= timeout

\* attempts++ < LCD_BUSY_TIMEOUT, on the value before the increment
PollAgain(attempts, timeout) == attempts < timeout

\* SEND_BYTE keeping the delay when LCD_BUSY_TIMEOUT is defined
AfterSendByte_alwaysWait(timeout) == "wait"

\* What SEND_BYTE does after sendByte has returned: _delay_us(delay) if
\* LCD_BUSY_TIMEOUT is not defined, nothing otherwise
AfterSendByte(timeout) == IF timeout = 0 THEN "wait" ELSE "done"

\* Everything but the bus
busFrame == <<ready, lcdCursor, utf8Buffer, ac, call, out, disp, stored,
              feed, feedCp, pos, feedStart, feedDisp, feedData, run, runNl,
              iface, decoded, fault>>

InitBus ==
    /\ AfterInit
    /\ iface = Synchronised
    /\ decoded = <<>>
    /\ fault = NoFault
    /\ \E timeout \in BusyTimeouts, I \in BOOLEAN :
          bus = Begin([BusIdle EXCEPT !.timeout = timeout, !.I = I], out, 1)
    /\ feed = <<>>
    /\ feedCp = -1
    /\ pos = 0
    /\ feedStart = 0
    /\ feedDisp = <<>>
    /\ feedData = <<>>
    /\ run = 0
    /\ runNl = FALSE

\* ATOMIC_BLOCK(ATOMIC_RESTORESTATE): save SREG, cli
BusEnter ==
    /\ bus.pc = "enter"
    /\ bus' = [bus EXCEPT !.sreg = bus.I, !.I = FALSE, !.pc = "setup"]
    /\ UNCHANGED busFrame

\* sendNibble: RS and DB7..DB4 are written
BusSetup ==
    /\ bus.pc = "setup"
    /\ bus' = [SetLines(bus, Entry.rs, NibbleOf(Entry, bus.half)) EXCEPT !.pc = "rise"]
    /\ UNCHANGED busFrame

\* sendNibble: EN is driven high
BusRise ==
    /\ bus.pc = "rise"
    /\ bus' = [bus EXCEPT !.en = 1, !.pc = "fall",
                          !.pulses = Append(@, [rs |-> bus.rs, rw |-> bus.rw,
                                                db |-> bus.db])]
    /\ UNCHANGED busFrame

\* sendNibble: EN is pulled low, and sendNibble returns
BusFall ==
    /\ bus.pc = "fall"
    /\ bus' = [bus EXCEPT !.en = 0, !.half = "low",
                          !.pc = AfterNibble(Entry, bus.half, bus.timeout)]
    /\ UNCHANGED busFrame

\* sendByte with LCD_BUSY_TIMEOUT: RS low, data pins to inputs with pull-up,
\* R/W high, attempts = 0
BusPollSetup ==
    /\ bus.pc = "poll"
    /\ bus' = [SetLines(bus, 0, PulledUp(bus)) EXCEPT
                  !.ddr = @ \ PollPins(bus.wiring), !.rw = 1, !.attempts = 0,
                  !.paced = "poll", !.pc = "test"]
    /\ UNCHANGED busFrame

\* while(attempts++ < LCD_BUSY_TIMEOUT); attempts is a uint16_t
BusPollTest ==
    /\ bus.pc = "test"
    /\ bus' = [bus EXCEPT !.attempts = (@ + 1) % 65536,
                          !.pc = IF PollAgain(bus.attempts, bus.timeout)
                                 THEN "sample" ELSE "release"]
    /\ UNCHANGED busFrame

\* EN is driven high and the busy flag is read from DB7; db is what the port
\* bits hold, the lines themselves are driven by the controller
BusPollSample ==
    /\ bus.pc = "sample"
    /\ \E busy \in {0, 1} :
          bus' = [bus EXCEPT !.en = 1, !.samples = Append(@, busy), !.pc = "sampled",
                             !.pulses = Append(@, [rs |-> bus.rs, rw |-> bus.rw,
                                                   db |-> bus.db])]
    /\ UNCHANGED busFrame

\* EN is pulled low
BusPollFall ==
    /\ bus.pc = "sampled"
    /\ bus' = [bus EXCEPT !.en = 0, !.pc = "second"]
    /\ UNCHANGED busFrame

\* The second pulse of the attempt, EN high
BusPollSecond ==
    /\ bus.pc = "second"
    /\ bus' = [bus EXCEPT !.en = 1, !.pc = "secondfall",
                          !.pulses = Append(@, [rs |-> bus.rs, rw |-> bus.rw,
                                                db |-> bus.db])]
    /\ UNCHANGED busFrame

\* EN low; if(!busy) break
BusPollBreak ==
    /\ bus.pc = "secondfall"
    /\ bus' = [bus EXCEPT !.en = 0,
                          !.pc = IF bus.samples[Len(bus.samples)] = 0
                                 THEN "release" ELSE "test"]
    /\ UNCHANGED busFrame

\* The end of the polling phase leaving the data pins as inputs
BusPollRelease_inputs ==
    /\ bus.pc = "release"
    /\ bus' = [bus EXCEPT !.rw = 0, !.pc = "exit"]
    /\ UNCHANGED busFrame

\* R/W low again, data pins back to outputs
BusPollRelease ==
    /\ bus.pc = "release"
    /\ bus' = [bus EXCEPT !.rw = 0, !.ddr = @ \cup PollPins(bus.wiring), !.pc = "exit"]
    /\ UNCHANGED busFrame

\* The end of the ATOMIC_BLOCK: SREG is restored, and sendByte returns
BusExit ==
    /\ bus.pc = "exit"
    /\ bus' = [bus EXCEPT !.I = bus.sreg, !.pc = AfterSendByte(bus.timeout)]
    /\ UNCHANGED busFrame

\* delayMs or _delay_us: on its own, after sendNibble in lcd_init, or as the
\* second statement of SEND_BYTE
BusWait ==
    /\ bus.pc = "wait"
    /\ bus' = [bus EXCEPT !.waited = Entry.delay, !.paced = "delay", !.pc = "done"]
    /\ UNCHANGED busFrame

\* The transfer is complete, on to the next one
BusNext ==
    /\ bus.pc = "done"
    /\ bus' = Begin(bus, out, bus.at + 1)
    /\ UNCHANGED busFrame

\* An interrupt is served between the first statement of sendByte and the
\* end of the byte's synchronisation; its handler may use the pins
Interrupt ==
    /\ bus.I
    /\ bus.pc \notin {"idle", "enter", "done"}
    /\ Entry.k = "byte"
    /\ ~bus.irq
    /\ bus' = [bus EXCEPT !.irq = TRUE]
    /\ UNCHANGED busFrame

\* With all transfers of lcd_init done, one lcd_writeChar
BusWriteChar ==
    /\ bus.pc = "idle"
    /\ run = 0
    /\ \E character \in UnsignedChars :
          Apply("lcd_writeChar", <<character>>, lcd_writeChar(D, character))
    /\ bus' = Begin(bus, out', 1)
    /\ run' = 1
    /\ UNCHANGED <<ready, feed, feedCp, pos, feedStart, feedDisp, feedData, runNl,
                   iface, decoded, fault>>

NextBus ==
    \/ BusEnter
    \/ BusSetup
    \/ BusRise
    \/ BusFall
    \/ BusPollSetup
    \/ BusPollTest
    \/ BusPollSample
    \/ BusPollFall
    \/ BusPollSecond
    \/ BusPollBreak
    \/ BusPollRelease
    \/ BusExit
    \/ BusWait
    \/ BusNext
    \/ Interrupt
    \/ BusWriteChar

SpecBus == InitBus /\ [][NextBus]_vars

---------------------------------------------------------------------------
(* Pacing harness: the transfers of lcd_init, and then of further calls,   *)
(* are handed one by one to a controller that is busy for its execution    *)
(* time after every command; the driver is built without LCD_BUSY_TIMEOUT  *)
(* and only the delay of SEND_BYTE and sendNibble separates two transfers  *)

\* Public function for sending an arbitrary command
lcd_command(d, command) == SEND_BYTE(d, 0, command, 1640)

\* Microseconds the driver allows for a command other than "Clear display"
ShortCommandTime == 42

\* Microseconds the driver allows for "Clear display"
ClearTime == 1640

\* Microseconds the driver allows for a write to the data register
DataWriteTime == 46

\* The time the controller is busy with the byte c written to register rs:
\* "Clear display" 0000 0001 and "Return home" 0000 001* are the slow
\* commands
ExecTime(rs, c) ==
    IF rs = 1 THEN DataWriteTime
    ELSE IF c \in 1..3 THEN ClearTime
    ELSE ShortCommandTime

\* The busy time left after a delay
Elapse(exec, delay) == IF delay >= exec THEN 0 ELSE exec - delay

\* One enable pulse at the controller p = [iface, exec, early]: a pulse that
\* arrives while the controller is busy is early; a pulse that completes a
\* byte starts its execution
PacePulse(p, rs, n) ==
    LET r == Receive(p.iface, rs, n)
    IN  [iface |-> r.iface,
         exec  |-> IF r.bytes = <<>> THEN p.exec
                   ELSE ExecTime(r.bytes[1].rs, r.bytes[1].c),
         early |-> p.early \/ p.exec > 0]

\* The pulses of one transfer: sendNibble is one pulse, sendByte two
PaceTransfer(p, e) ==
    IF e.k = "nibble" THEN PacePulse(p, e.rs, e.c)
    ELSE IF e.k = "byte"
         THEN PacePulse(PacePulse(p, e.rs, e.c \div 16), e.rs, e.c % 16)
    ELSE p

\* Characters of every kind lcd_writeChar tells apart: line feed, ASCII,
\* a start byte and a continuation byte
PaceChars == {\h0A, \h41, \hC3, \hA4}

\* After power-on, in any of the states the controller may be in, with the
\* transfers of lcd_init about to be made
InitPace ==
    /\ AfterInit
    /\ iface \in PowerOnInterfaces
    /\ decoded = <<>>
    /\ fault = NoFault
    /\ bus = [BusIdle EXCEPT !.pc = "send"]
    /\ feed = <<>>
    /\ feedCp = -1
    /\ pos = 0
    /\ feedStart = 0
    /\ feedDisp = <<>>
    /\ feedData = <<>>
    /\ run = 0
    /\ runNl = FALSE

\* The transfer out[bus.at] reaches the controller
PaceSend ==
    /\ bus.pc = "send"
    /\ LET p == PaceTransfer([iface |-> iface, exec |-> bus.exec, early |-> bus.early],
                             Entry)
       IN  /\ iface' = p.iface
           /\ bus' = [bus EXCEPT !.exec = p.exec, !.early = p.early, !.pc = "wait"]
    /\ UNCHANGED <<ready, lcdCursor, utf8Buffer, ac, call, out, disp, stored,
                   feed, feedCp, pos, feedStart, feedDisp, feedData, run, runNl,
                   decoded, fault>>

\* The delay after the transfer: _delay_us(delay), or delayMs/delayUs in lcd_init
PaceWait ==
    /\ bus.pc = "wait"
    /\ bus' = [bus EXCEPT !.exec = Elapse(@, Entry.delay),
                          !.waited = Entry.delay,
                          !.at = IF bus.at < Len(out) THEN @ + 1 ELSE @,
                          !.pc = IF bus.at < Len(out) THEN "send" ELSE "idle"]
    /\ UNCHANGED busFrame

\* A call whose transfers are made next
PaceApply(op, args, r, calls) ==
    /\ bus.pc = "idle"
    /\ Apply(op, args, r)
    /\ bus' = [bus EXCEPT !.at = 1, !.pc = IF r.out = <<>> THEN "idle" ELSE "send"]
    /\ run' = calls
    /\ UNCHANGED <<ready, feed, feedCp, pos, feedStart, feedDisp, feedData, runNl,
                   iface, decoded, fault>>

PaceGoto ==
    /\ call.op = "lcd_init"
    /\ \E row \in 1..2, column \in 1..16 :
          PaceApply("lcd_goto", <<row, column>>, lcd_goto(D, row, column), run)

PaceWriteChar ==
    /\ run < 2
    /\ \E character \in PaceChars :
          PaceApply("lcd_writeChar", <<character>>, lcd_writeChar(D, character), run + 1)

PaceClear ==
    /\ run = 0
    /\ PaceApply("lcd_clear", <<>>, lcd_clear(D), 2)

PaceRegisterCustomChar ==
    /\ run = 0
    /\ \E addr \in UnsignedChars, chr \in Bitmaps :
          PaceApply("lcd_registerCustomChar", <<addr, chr>>,
                    lcd_registerCustomChar(D, addr, chr), 2)

PaceCommand ==
    /\ run = 0
    /\ \E command \in UnsignedChars :
          PaceApply("lcd_command", <<command>>, lcd_command(D, command), 2)

NextPace ==
    \/ PaceSend
    \/ PaceWait
    \/ PaceGoto
    \/ PaceWriteChar
    \/ PaceClear
    \/ PaceRegisterCustomChar
    \/ PaceCommand

SpecPace == InitPace /\ [][NextPace]_vars

---------------------------------------------------------------------------
(* Decoder harness: lcd_writeChar is called with one byte after another;   *)
(* run counts the ASCII bytes delivered in a row without a dispatch, and   *)
(* runNl says that only ASCII bytes were delivered since the last dispatch *)

\* NUL, 'A', a continuation byte, the start bytes of 2, 3 and 4 byte
\* sequences and a byte that starts nothing
DecoderBytes == {\h00, \h41, \h80, \hc3, \he2, \hf0, \hff}

\* Calls of lcd_writeChar in one behaviour
MaxCalls == 7

InitDecoder ==
    /\ AfterInit
    /\ HarnessIdle

DecoderByte ==
    /\ pos < MaxCalls
    /\ \E character \in DecoderBytes :
          /\ Apply("lcd_writeChar", <<character>>, lcd_writeChar(D, character))
          /\ run' = IF disp' # <<>> \/ character >= \h80 THEN 0 ELSE run + 1
          /\ runNl' = (character < \h80 /\ (disp' # <<>> \/ runNl))
    /\ pos' = pos + 1
    /\ UNCHANGED <<ready, feed, feedCp, feedStart, feedDisp, feedData, probeVars>>

NextDecoder == DecoderByte

SpecDecoder == InitDecoder /\ [][NextDecoder]_vars

---------------------------------------------------------------------------
(* Bar graph harness with earlier input: up to MaxPrefix bytes are passed  *)
(* to lcd_writeChar after lcd_init, then lcd_drawBar is called with any    *)
(* percentage; a call whose second loop repeats a state never returns      *)

\* Calls of lcd_writeChar before the call of lcd_drawBar
MaxPrefix == 2

\* 'A', a continuation byte and the start byte of the block of the bar
BarPrefixBytes == {\h41, \h80, \he2}

InitBarAfter ==
    /\ AfterInit
    /\ HarnessIdle

BarPrefixByte ==
    /\ run = 0
    /\ pos < MaxPrefix
    /\ \E character \in BarPrefixBytes :
          Apply("lcd_writeChar", <<character>>, lcd_writeChar(D, character))
    /\ pos' = pos + 1
    /\ UNCHANGED <<ready, feed, feedCp, feedStart, feedDisp, feedData, run, runNl,
                   probeVars>>

\* lcd_drawBar(percent): when the loop "while(lcdCursor < 16)" cannot end
\* the call hangs in the state the loop repeats
DrawBarAfter ==
    /\ run = 0
    /\ \E percent \in UnsignedChars :
          LET e == BarSpacesEnd(BarBlocks(lcd_line1(D), BarScale(percent)))
          IN  IF e.cur < 16
              THEN /\ Apply("lcd_drawBar", <<percent>>, e)
                   /\ fault' = [fault EXCEPT !.hang = TRUE]
              ELSE /\ Apply("lcd_drawBar", <<percent>>, lcd_drawBar(D, percent))
                   /\ fault' = fault
    /\ run' = 1
    /\ UNCHANGED callFrame

NextBarAfter ==
    \/ BarPrefixByte
    \/ DrawBarAfter

SpecBarAfter == InitBarAfter /\ [][NextBarAfter]_vars

---------------------------------------------------------------------------
(* Pin assignment harness: the bus harness with DB4..DB7 assigned to port  *)
(* pins in several ways lcd.h allows                                       *)

\* Assignments of the data lines: the one of lcd.h, DB5 on another port,
\* two lines on each of two ports, and all four on a third port
Wirings ==
    {ShippedWiring,
     [ShippedWiring EXCEPT !.DB5 = <<"B", 1>>],
     [DB4 |-> <<"A", 0>>, DB5 |-> <<"A", 1>>, DB6 |-> <<"B", 0>>, DB7 |-> <<"B", 1>>],
     [DB4 |-> <<"C", 0>>, DB5 |-> <<"C", 1>>, DB6 |-> <<"C", 2>>, DB7 |-> <<"C", 3>>]}

InitPins ==
    /\ AfterInit
    /\ iface = Synchronised
    /\ decoded = <<>>
    /\ fault = NoFault
    /\ \E w \in Wirings, timeout \in BusyTimeouts, I \in BOOLEAN :
          bus = Begin([BusReset(w) EXCEPT !.timeout = timeout, !.I = I], out, 1)
    /\ feed = <<>>
    /\ feedCp = -1
    /\ pos = 0
    /\ feedStart = 0
    /\ feedDisp = <<>>
    /\ feedData = <<>>
    /\ run = 0
    /\ runNl = FALSE

SpecPins == InitPins /\ [][NextBus]_vars

---------------------------------------------------------------------------
(* Properties *)

ClearDisplay == [k |-> "byte", rs |-> 0, c |-> \h01, delay |-> 1640]

\* The DDRAM address of a cursor position, as the specification gives it
SpecAddress(p) ==
    IF p \in 0..15 THEN p
    ELSE IF p \in 16..31 THEN 64 + (p % 16)
    ELSE 0

\* The last call was lcd_writeChar and it wrote a glyph
WroteGlyph == call.op = "lcd_writeChar" /\ disp # <<>> /\ disp[1] # \h0a

\* C1: after any finite sequence of public operations the logical cursor
\* lcdCursor is in the range [0,32].
C1_CursorInRange == lcdCursor \in 0..32

\* C2 as stated: at cursor 31 a single-byte character moves the cursor to
\* the sentinel 32 without a clear-display; the next character write issues
\* clear-display first, writes its glyph and leaves the cursor at 1; writing
\* single-byte characters from cursor 0 clears exactly before the 33rd,
\* 65th, 97th, ... character.
C2_PageBreakAnyCharacter ==
    run > 0 =>
        /\ call.cursor0 = 31 => lcdCursor = 32 /\ ~Clears(out)
        /\ call.cursor0 = 32 =>
              /\ Len(out) = 2 /\ out[1] = ClearDisplay
              /\ out[2].rs = 1
              /\ lcdCursor = 1
        /\ Clears(out) <=> (run > 32 /\ run % 32 = 1)

\* C2, amended: the same, for characters other than the newline U+000A: the
\* next write of a character other than newline at the sentinel clears
\* first and leaves the cursor at 1, and a run of single-byte characters
\* without a newline, from cursor 0, clears exactly before the 33rd, 65th,
\* 97th, ... character.
C2_PageBreak ==
    run > 0 =>
        /\ call.cursor0 = 31 => lcdCursor = 32 /\ ~Clears(out)
        /\ (call.cursor0 = 32 /\ call.args[1] # \h0a) =>
              /\ Len(out) = 2 /\ out[1] = ClearDisplay
              /\ out[2].rs = 1
              /\ lcdCursor = 1
        /\ ~runNl => (Clears(out) <=> (run > 32 /\ run % 32 = 1))

C2_Witness ==
    /\ run = 33 /\ ~runNl
    /\ call.cursor0 = 32 /\ out[1] = ClearDisplay /\ lcdCursor = 1

\* C3: every glyph written by lcd_writeChar is stored at the DDRAM address
\* that the cursor value at the start of the call maps to.
C3_GlyphStoredAtCursor ==
    WroteGlyph =>
        /\ Len(stored) = 1
        /\ stored[1].ram = "DDRAM"
        /\ stored[1].addr = SpecAddress(call.cursor0)

\* C4: the bytes of a reference-encoded code point, fed one per call from an
\* empty accumulator, dispatch nothing on a proper prefix and dispatch
\* exactly that code point, with its mapped glyph byte, on the last byte.
C4_Utf8RoundTrip ==
    feedCp # -1 =>
        /\ pos < Len(feed) => feedDisp = <<>> /\ feedData = <<>>
        /\ pos = Len(feed) =>
              /\ disp = <<feedCp>>
              /\ feedDisp = <<feedCp>>
              /\ feedData = IF feedCp = \h0a THEN <<>> ELSE <<LcdCode(feedCp)>>

C4_Witness == feedCp = \h1f600 /\ pos = 4 /\ feedDisp = <<\h1f600>> /\ feedData = <<\hff>>

\* C5: a byte 0xF8..0xFF, or a continuation byte 0x80..0xBF arriving with an
\* empty accumulator, leads to a dispatch of U+FFFD, written as glyph byte
\* 0xFF, and the accumulator is emptied.
C5_MalformedReplaced ==
    (/\ feedCp = -1
     /\ pos > 0
     /\ \/ feed[pos] \in \hf8..\hff
        \/ pos = 1 /\ feed[1] \in \h80..\hbf)
    => /\ disp = <<\hfffd>>
       /\ DataBytes(out) = <<\hff>>
       /\ utf8Buffer = Zero32

\* C6: the accumulator is empty after every lcd_writeChar call that
\* dispatches a code point; the bytes 0x41, 0xE2, 0x86, 0x90 produce exactly
\* the data writes 0x41 then 0x7F and advance the cursor by 2 (from a cursor
\* <= 13 with an empty accumulator).
C6_AccumulatorReset ==
    /\ (pos > 0 /\ disp # <<>>) => utf8Buffer = Zero32
    /\ (feed = ArrowScenario /\ feedStart <= 13) =>
          /\ pos \in 1..3 => feedData = <<\h41>> /\ lcdCursor = feedStart + 1
          /\ pos = 4 => feedData = <<\h41, \h7f>> /\ lcdCursor = feedStart + 2

C6_Witness ==
    /\ feed = ArrowScenario /\ pos = 4 /\ feedStart = 13
    /\ lcdCursor = 15 /\ utf8Buffer = Zero32

\* C7: an lcd_writeChar call that leaves a multi-byte sequence incomplete
\* sends nothing on the bus and leaves lcdCursor (and the controller)
\* unchanged; only the accumulator changes.
C7_IncompleteNoEffect ==
    (feedCp # -1 /\ 0 < pos /\ pos < Len(feed)) =>
        /\ out = <<>>
        /\ stored = <<>>
        /\ disp = <<>>
        /\ lcdCursor = call.cursor0
        /\ lcdCursor = feedStart
        /\ ac = DDRAM(SpecAddress(feedStart))
        /\ utf8Buffer # Zero32

C7_Witness == feedCp = \h2190 /\ pos = 2 /\ out = <<>> /\ utf8Buffer = <<0, 0, \he2, \h86>>

\* C8: dispatching U+000A writes no glyph; from a position below 16 the
\* cursor becomes 16, from 16..32 it becomes the sentinel 32, and the next
\* glyph written at the sentinel is preceded by a clear-display.
C8_Newline ==
    /\ [](call.op = "lcd_writeChar" /\ disp = <<\h0a>> =>
            /\ DataBytes(out) = <<>>
            /\ stored = <<>>
            /\ call.cursor0 < 16 => lcdCursor = 16
            /\ call.cursor0 \in 16..32 => lcdCursor = 32)
    /\ [][(lcdCursor = 32 /\ WroteGlyph') => out'[1] = ClearDisplay]_vars

C8_Witness ==
    /\ call.op = "lcd_writeChar" /\ disp = <<\h0a>>
    /\ call.cursor0 = 20 /\ lcdCursor = 32 /\ DataBytes(out) = <<>>

\* The glyph table as pairs <<code point, device byte>>
ListedGlyphs ==
    {<<\h005c, 2>>, <<\h007e, 1>>, <<\h009d, \h5c>>, <<\h2192, \h7e>>,
     <<\h2190, \h7f>>, <<\h2092, \ha1>>, <<\h00da, \ha2>>, <<\h00d9, \ha3>>,
     <<\h00b7, \ha5>>, <<\h2203, \hae>>, <<\h018e, \hae>>, <<\h25af, \hdb>>,
     <<\h25a1, \hdb>>, <<\h00b0, \hdf>>, <<\h03b1, \he0>>, <<\h00e4, \he1>>,
     <<\h03b2, \he2>>, <<\h00df, \he2>>, <<\h03b5, \he3>>, <<\h0190, \he3>>,
     <<\h03bc, \he4>>, <<\h00b5, \he4>>, <<\h03c3, \he5>>, <<\h03c1, \he6>>,
     <<\h221a, \he8>>, <<\h215f, \he9>>, <<\h00a2, \hec>>, <<\h00f1, \hee>>,
     <<\h00f6, \hef>>, <<\h03b8, \hf2>>, <<\h221e, \hf3>>, <<\h03a9, \hf4>>,
     <<\h00fc, \hf5>>, <<\h03a3, \hf6>>, <<\h03c0, \hf7>>, <<\h00f7, \hfd>>,
     <<\h25ae, \hff>>, <<\h25a0, \hff>>}

\* The CGRAM cells lcd_init writes
InitGlyphCells ==
    {cell \in {Controller(DDRAM(\h00), <<>>, lcd_init(ResetD).out).stored[i] :
                  i \in 1..16} : cell.ram = "CGRAM"}

C10_ForwardBack ==
    [][/\ (call'.op = "lcd_forward" /\ lcdCursor \in 0..31) =>
              lcdCursor' = (lcdCursor + 1) % 32
       /\ (call'.op = "lcd_back" /\ lcdCursor \in 0..31) =>
              lcdCursor' = (lcdCursor + 31) % 32
       /\ (call.op = "lcd_forward" /\ call.cursor0 \in 0..31 /\ call'.op = "lcd_back") =>
              lcdCursor' = call.cursor0
       /\ (call.op = "lcd_back" /\ call.cursor0 \in 0..31 /\ call'.op = "lcd_forward") =>
              lcdCursor' = call.cursor0]_vars

C10_Witness == call.op = "lcd_back" /\ call.cursor0 = 16 /\ lcdCursor = 15

\* C11: for every cursor position p in [0,31], lcd_move(1, 0) called twice
\* returns the cursor to p.
C11_MoveRowTwice ==
    [][(/\ call.op = "lcd_move" /\ call.args = <<1, 0>> /\ call.cursor0 \in 0..31
        /\ call'.op = "lcd_move" /\ call'.args = <<1, 0>>)
       => lcdCursor' = call.cursor0]_vars

\* C12: lcd_move(dRow, dCol) with dRow in [-1,1] and dCol in [-15,15], from a
\* cursor at (row, col) in [0,31], sets the cursor to row (row + dRow) mod 2
\* and column (col + dCol) mod 16; lcd_move(0,0) leaves the cursor unchanged.
C12_MoveWraps ==
    (call.op = "lcd_move" /\ call.cursor0 \in 0..31) =>
        LET row == call.cursor0 \div 16
            col == call.cursor0 % 16
        IN  lcdCursor = ((row + call.args[1] + 2) % 2) * 16
                        + ((col + call.args[2] + 16) % 16)

\* A value clamped to [lo, hi]
Clamped(x, lo, hi) == IF x < lo THEN lo ELSE IF x > hi THEN hi ELSE x

\* C13: lcd_goto(row, col) never rejects its arguments: for every row and col
\* in 0..255 the row is clamped to [1,2] and the column to [1,16], the cursor
\* becomes (row'-1)*16 + (col'-1) of the clamped values and the address of
\* that position is sent, so lcd_goto(3,20) has the effect of lcd_goto(2,16).
C13_GotoClamps ==
    call.op = "lcd_goto" =>
        LET row == call.args[1]
            column == call.args[2]
            start == [cur |-> call.cursor0, buf |-> utf8Buffer,
                      out |-> <<>>, disp |-> <<>>]
        IN  /\ lcdCursor = (Clamped(row, 1, 2) - 1) * 16 + (Clamped(column, 1, 16) - 1)
            /\ Commands(out) = <<\h80 + SpecAddress(lcdCursor)>>
            /\ DataBytes(out) = <<>>
            /\ (row = 3 /\ column = 20) =>
                  lcdCursor = 31 /\ out = lcd_goto(start, 2, 16).out

C13_Witness == call.op = "lcd_goto" /\ call.args = <<3, 20>> /\ lcdCursor = 31

MovementOps ==
    {"lcd_line1", "lcd_line2", "lcd_goto", "lcd_move", "lcd_back", "lcd_forward",
     "lcd_home"}

\* C14: each movement operation (lcd_line1, lcd_line2, lcd_goto, lcd_move,
\* lcd_back, lcd_forward, lcd_home) sends exactly one byte, a command equal to
\* 0x80 | address of the new cursor position (p in 0..15 -> p, p in 16..31 ->
\* 0x40 | (p & 0x0F)), and writes nothing to the data register.
C14_MovementCommand ==
    call.op \in MovementOps =>
        /\ Len(out) = 1
        /\ Commands(out) = <<\h80 + SpecAddress(lcdCursor)>>
        /\ DataBytes(out) = <<>>

C14_Witness ==
    /\ call.op = "lcd_back"
    /\ call.cursor0 = 0
    /\ lcdCursor = 31
    /\ Commands(out) = <<\hcf>>

\* C15: lcd_home moves the cursor to column 1 of the row it is in: from any
\* position in 0..15 the cursor becomes 0, from any position in 16..31 it
\* becomes 16.
C15_HomeKeepsRow ==
    call.op = "lcd_home" =>
        /\ call.cursor0 \in 0..15 => lcdCursor = 0
        /\ call.cursor0 \in 16..31 => lcdCursor = 16

C15_Witness == call.op = "lcd_home" /\ call.cursor0 = 31 /\ lcdCursor = 16

\* C16: from each initial state of the controller's interface (8-bit mode;
\* 4-bit mode awaiting a high nibble; 4-bit mode awaiting a low nibble with
\* any of the 16 pending high nibbles) the three 0011 nibbles of lcd_init
\* leave the controller in 8-bit mode, the following 0010 nibble leaves it in
\* 4-bit mode awaiting a high nibble, and the bytes the controller decodes
\* from then on are the bytes lcd_init sends, whatever the initial state.
C16_HomingConverges ==
    /\ pos = 3 => iface.mode = 8
    /\ pos >= 4 =>
          LET n == (pos - 4) \div 2 IN
          /\ iface.mode = 4
          /\ iface.phase = (IF (pos - 4) % 2 = 0 THEN "high" ELSE "low")
          /\ Len(decoded) >= n
          /\ SubSeq(decoded, Len(decoded) - n + 1, Len(decoded))
                = SubSeq(ByteStream(out), 1, n)

\* lcd_init has been received whole by a controller that started in 4-bit
\* mode with the high nibble 0101 pending
C16_Witness ==
    /\ pos = Len(NibbleStream(out))
    /\ pos > 4
    /\ iface = Synchronised
    /\ decoded[1] = [rs |-> 0, c |-> \h53]
    /\ SubSeq(decoded, Len(decoded) - Len(ByteStream(out)) + 1, Len(decoded))
          = ByteStream(out)

\* C17: for every slot k in [0,7] and every bitmap, lcd_registerCustomChar
\* sends set-CGRAM-address 0x40 | 8k, then the 8 bitmap bytes to the data
\* register from the lowest byte to the highest, so CGRAM bytes 8k..8k+7 of
\* the controller equal the bitmap; the last command is set-DDRAM-address
\* for the cursor position held before the call, and the cursor is unchanged.
C17_CustomCharRoundTrip ==
    (call.op = "lcd_registerCustomChar" /\ call.args[1] \in 0..7) =>
        LET k == call.args[1]
            chr == call.args[2]
        IN  /\ Len(out) = 10
            /\ out[1] = [k |-> "byte", rs |-> 0, c |-> \h40 + 8 * k, delay |-> 42]
            /\ DataBytes(out) = chr
            /\ \A i \in 1..8 : out[i + 1].rs = 1
            /\ out[10].rs = 0 /\ out[10].c = \h80 + SpecAddress(call.cursor0)
            /\ stored = [i \in 1..8 |->
                            [ram |-> "CGRAM", addr |-> 8 * k + i - 1, val |-> chr[i]]]
            /\ ac = DDRAM(SpecAddress(call.cursor0))
            /\ lcdCursor = call.cursor0

C17_Witness ==
    /\ call.op = "lcd_registerCustomChar"
    /\ call.args = <<7, <<\h01, \h02, \h04, \h08, \h10, \h20, \h40, \h80>> >>
    /\ call.cursor0 = 20
    /\ stored[8] = [ram |-> "CGRAM", addr |-> 63, val |-> \h80]
    /\ ac = DDRAM(\h44)

\* C18: for every addr in 0..255, the first command lcd_registerCustomChar
\* sends is a set-CGRAM-address command (top two bits 01) addressing slot
\* addr mod 8, and the 8 bitmap bytes go to CGRAM, never to display memory.
C18_AddrMasked ==
    call.op = "lcd_registerCustomChar" =>
        /\ out[1].rs = 0
        /\ out[1].c = \h40 + 8 * (call.args[1] % 8)
        /\ Len(stored) = 8
        /\ \A i \in 1..8 : stored[i].ram = "CGRAM"

\* The cells of a display line all written once with the space glyph
ErasedCells(line) ==
    [i \in 1..16 |->
        [ram |-> "DDRAM", addr |-> (IF line = 1 THEN \h00 ELSE \h40) + i - 1,
         val |-> \h20]]

\* C19: lcd_erase(line), called in any reachable driver state (any cursor
\* position, any UTF-8 accumulator content), leaves all 16 cells of the given
\* line holding the space glyph 0x20, leaves the other line unchanged, issues
\* no clear-display command, and leaves the cursor position and the device
\* address pointer equal to the cursor position before the call.
C19_EraseLine ==
    call.op = "lcd_erase" =>
        /\ stored = ErasedCells(call.args[1])
        /\ ~Clears(out)
        /\ lcdCursor = call.cursor0
        /\ ac = DDRAM(SpecAddress(call.cursor0))

\* The decimal digits of n as characters, without leading zeros
RECURSIVE DecimalDigits(_)
DecimalDigits(n) ==
    IF n < 10 THEN <<\h30 + n>>
    ELSE DecimalDigits(n \div 10) \o <<\h30 + (n % 10)>>

\* C20: lcd_writeDec(n) writes, for every 16-bit unsigned n including 0,
\* exactly the decimal representation of n without leading zeros, and no
\* step of its computation divides by zero.
C20_WriteDec ==
    call.op = "lcd_writeDec" =>
        /\ ~fault.div0
        /\ ~fault.hang
        /\ DataBytes(out) = DecimalDigits(call.args[1])

\* The character 0-9a-f of a value 0..15
HexDigit(v) == IF v <= 9 THEN \h30 + v ELSE \h61 + (v - 10)

\* The hexadecimal digits of n as characters, without leading zeros
RECURSIVE HexDigits(_)
HexDigits(n) ==
    IF n < 16 THEN <<HexDigit(n)>>
    ELSE HexDigits(n \div 16) \o <<HexDigit(n % 16)>>

\* C21: lcd_writeHexNibble writes exactly one character from 0-9a-f for the
\* low 4 bits of its argument; lcd_writeHexByte and lcd_writeHexWord write
\* exactly 2 and 4 such digits, most significant first; lcd_writeHex(n)
\* writes the digits of lcd_writeHexWord(n) with the leading zeros omitted,
\* and the single digit '0' for n = 0, for every 16-bit n.
C21_HexOutput ==
    LET n == call.args[1] IN
    /\ call.op = "lcd_writeHexNibble" => DataBytes(out) = <<HexDigit(n % 16)>>
    /\ call.op = "lcd_writeHexByte" =>
          DataBytes(out) = <<HexDigit(n \div 16), HexDigit(n % 16)>>
    /\ call.op = "lcd_writeHexWord" =>
          DataBytes(out) = <<HexDigit(n \div 4096), HexDigit((n \div 256) % 16),
                             HexDigit((n \div 16) % 16), HexDigit(n % 16)>>
    /\ call.op = "lcd_writeHex" =>
          /\ DataBytes(out) = HexDigits(n)
          /\ n = 0 => DataBytes(out) = <<\h30>>

C21_Witness ==
    /\ call.op = "lcd_writeHex"
    /\ call.args = <<\h0a0f>>
    /\ DataBytes(out) = <<\h61, \h30, \h66>>
    /\ lcdCursor = 3

\* The value the last call left in DDRAM cell addr, -1 if it wrote none
Written(addr) ==
    LET at == {i \in 1..Len(stored) :
                  stored[i].ram = "DDRAM" /\ stored[i].addr = addr}
    IN  IF at = {} THEN -1
        ELSE stored[CHOOSE i \in at : \A j \in at : j <= i].val

\* C22: lcd_drawBar(percent), called with an empty accumulator, leaves line
\* 1 with floor(min(percent, 100) * 16 / 100) solid blocks (0xFF) followed
\* by spaces up to column 16 and line 2 with 16 spaces, issues no
\* clear-display command and returns with the cursor at 16.
C22_DrawBar ==
    call.op = "lcd_drawBar" =>
        LET percent == call.args[1]
            blocks == ((IF percent > 100 THEN 100 ELSE percent) * 16) \div 100
        IN  /\ \A col \in 0..15 :
                  Written(col) = IF col < blocks THEN \hff ELSE \h20
            /\ \A col \in 0..15 : Written(\h40 + col) = \h20
            /\ ~Clears(out)
            /\ lcdCursor = 16

C22_Witness ==
    /\ call.op = "lcd_drawBar"
    /\ call.args = <<100>>
    /\ call.cursor0 = 31
    /\ \A col \in 0..15 : Written(col) = \hff
    /\ lcdCursor = 16

\* voltage / valueUpperBound * voltUpperBound in millivolts, rounded down,
\* computed without overflow
ExactMillivolts(voltage, valueUpperBound, voltUpperBound) ==
    LET a == voltage * voltUpperBound
    IN  (a \div valueUpperBound) * 1000
          + ((a % valueUpperBound) * 1000) \div valueUpperBound

\* The text of mv millivolts: integer part, '.', three digits, 'V'
VoltageText(mv) ==
    DecimalDigits(mv \div 1000)
      \o <<\h2e, \h30 + ((mv \div 100) % 10), \h30 + ((mv \div 10) % 10),
           \h30 + (mv % 10), \h56>>

\* C23: lcd_writeVoltage(voltage, valueUpperBound, voltUpperBound) with
\* 0 <= voltage < valueUpperBound writes the integer part, '.', three
\* fractional digits and 'V' of voltage / valueUpperBound * voltUpperBound
\* computed without 16-bit or 32-bit overflow; voltage = 0 is shown as
\* 0.000V and voltage = valueUpperBound - 1 as voltUpperBound.000V.
C23_WriteVoltage ==
    call.op = "lcd_writeVoltage" =>
        LET voltage == call.args[1]
            valueUpperBound == call.args[2]
            voltUpperBound == call.args[3]
        IN  /\ fault = NoFault
            /\ DataBytes(out) =
                  VoltageText(ExactMillivolts(voltage, valueUpperBound, voltUpperBound))
            /\ voltage = 0 => DataBytes(out) = VoltageText(0)
            /\ voltage = valueUpperBound - 1 =>
                  DataBytes(out) = VoltageText(voltUpperBound * 1000)

\* The fourth byte of the fed string was just shifted in behind a lead byte
\* 11110xxx, nothing was dispatched before it, and the three bytes after the
\* lead byte do not all match 10xxxxxx
BadFourByte ==
    /\ pos = 4
    /\ feed[1] \in \hf0..\hf7
    /\ ~(\A i \in 2..4 : feed[i] \in \h80..\hbf)
    /\ Len(feedDisp) = Len(disp)

\* C24 as stated: in the 4-byte case, when the top byte of the accumulator
\* matches 11110xxx but the three following bytes do not all match 10xxxxxx,
\* lcd_writeChar keeps buffering: it dispatches nothing and does not reset
\* the accumulator.
C24_KeepsBuffering ==
    BadFourByte =>
        /\ disp = <<>>
        /\ utf8Buffer = <<feed[1], feed[2], feed[3], feed[4]>>

\* C24 as amended: in that case lcd_writeChar dispatches the replacement
\* code point U+FFFD, written as glyph 0xFF, and resets the accumulator.
C24_BadFourByteReplaced ==
    BadFourByte =>
        /\ disp = <<\hfffd>>
        /\ DataBytes(out) = <<\hff>>
        /\ utf8Buffer = Zero32

C24_Witness ==
    /\ BadFourByte
    /\ feed = <<\hf0, \h41, \h41, \h41>>
    /\ disp = <<\hfffd>>
    /\ utf8Buffer = Zero32

\* The pins are inside a byte transfer: past the first statement of sendByte
\* and not yet through the synchronisation of the byte
InTransfer == bus.pc \notin {"idle", "enter", "done"} /\ Entry.k = "byte"

\* C25: for every byte sent through sendByte, interrupts are disabled from
\* before the first nibble until the synchronisation of that byte (the
\* busy-poll loop, or the per-command delay in fixed-delay mode) has
\* completed, so that no interrupt handler runs in between, and the
\* interrupt-enable state that held on entry is restored on exit.
C25_TransferUninterrupted ==
    /\ InTransfer => ~bus.I
    /\ ~bus.irq
    /\ (bus.pc = "done" /\ Entry.k = "byte") => bus.I = bus.sreg

\* A transfer of lcd_init is complete on the pins
BringUpDone == call.op = "lcd_init" /\ bus.pc = "done"

\* The positions of the four homing nibbles and of the five configuration
\* commands among the transfers of lcd_init
HomingNibbles == 2..5

ConfigCommands == 6..10

\* C26 as stated: under both synchronisation strategies the four homing
\* nibbles and the five configuration commands of lcd_init are each paced by
\* a fixed delay and never by busy-flag polling, also when LCD_BUSY_TIMEOUT
\* is configured.
C26_FixedDelaysOnly ==
    (BringUpDone /\ bus.at \in HomingNibbles \cup ConfigCommands) =>
        /\ bus.paced = "delay"
        /\ bus.waited = Entry.delay
        /\ bus.samples = <<>>

\* C26 as amended: the four homing nibbles are each paced by a fixed delay
\* under both strategies; the five configuration commands are each paced by
\* a fixed delay when LCD_BUSY_TIMEOUT is not defined, and by busy-flag
\* polling without a delay when it is.
C26_BringUpPacing ==
    BringUpDone =>
        /\ bus.at \in HomingNibbles =>
              /\ Entry.k = "nibble"
              /\ bus.paced = "delay"
              /\ bus.waited = Entry.delay
              /\ bus.samples = <<>>
        /\ bus.at \in ConfigCommands =>
              /\ Entry.k = "byte"
              /\ Entry.rs = 0
              /\ IF bus.timeout = 0
                 THEN /\ bus.paced = "delay"
                      /\ bus.waited = Entry.delay
                      /\ bus.samples = <<>>
                 ELSE /\ bus.paced = "poll"
                      /\ bus.waited = 0
                      /\ Len(bus.samples) >= 1

C26_Witness ==
    /\ BringUpDone
    /\ bus.timeout = 2
    /\ bus.at = 6
    /\ Entry.c = \h28
    /\ bus.paced = "poll"
    /\ bus.samples = <<1, 0>>

\* The homing nibbles and the least waits after them, in microseconds
HomingNibbleValues == <<3, 3, 3, 2>>

HomingMinWaits == <<4100, 100, 100, 42>>

\* C27: lcd_init drives the bus in this order: a power-on wait, nibble 0011
\* and a wait of at least 4.1 ms, nibble 0011 and at least 100 us, nibble
\* 0011 and at least 100 us, nibble 0010 and at least 42 us, all with
\* register-select low; only after these four single nibbles is any full
\* byte sent, and no further single nibble.
C27_HomingOrder ==
    call.op = "lcd_init" =>
        /\ Len(out) >= 6
        /\ out[1].k = "delay"
        /\ out[1].delay > 0
        /\ \A i \in 1..4 :
              /\ out[i + 1].k = "nibble"
              /\ out[i + 1].rs = 0
              /\ out[i + 1].c = HomingNibbleValues[i]
              /\ out[i + 1].delay >= HomingMinWaits[i]
        /\ \A i \in 6..Len(out) : out[i].k = "byte"

C27_Witness ==
    /\ call.op = "lcd_init"
    /\ call.cursor0 = 17
    /\ out[2] = [k |-> "nibble", rs |-> 0, c |-> 3, delay |-> 5000]
    /\ out[5] = [k |-> "nibble", rs |-> 0, c |-> 2, delay |-> 42]
    /\ out[6].k = "byte"

\* The configuration commands: function set (4-bit, 2 lines, 5x8), display
\* off, clear display, entry mode (increment, no shift), display on (cursor
\* off, blink off)
ConfigBytes == <<\h28, \h08, \h01, \h06, \h0c>>

\* C28: after the homing nibbles lcd_init sends to the instruction register
\* exactly the commands 0x28, 0x08, 0x01, 0x06, 0x0C in this order, before
\* any custom-glyph registration (a set-CGRAM-address command) or data write.
C28_ConfigCommands ==
    call.op = "lcd_init" =>
        /\ Len(out) >= 10
        /\ \A i \in 1..5 :
              /\ out[5 + i].k = "byte"
              /\ out[5 + i].rs = 0
              /\ out[5 + i].c = ConfigBytes[i]
        /\ SubSeq(Commands(out), 1, 5) = ConfigBytes
        /\ \A i \in 1..Len(out) :
              (out[i].k = "byte" /\ (out[i].rs = 1 \/ out[i].c \in \h40..\h7f)) => i > 10

C28_Witness ==
    /\ call.op = "lcd_init"
    /\ call.cursor0 = 32
    /\ Len(out) = 30
    /\ out[10] = [k |-> "byte", rs |-> 0, c |-> \h0c, delay |-> 42]
    /\ out[11].c = \h48
    /\ out[12].rs = 1

\* An enable pulse with R/W low
IsWritePulse(p) == p.rw = 0

\* C29: every byte transfer sendByte(regSel, c) produces exactly two write
\* enable pulses, the first with DB7..DB4 equal to bits 7..4 of c, the
\* second with bits 3..0 of c, and register-select equal to regSel during
\* both; data and register-select lines do not change while enable is high,
\* and enable is low on entry to and on return from every nibble transfer.
C29_BusEncoding ==
    /\ ~bus.moved
    /\ bus.en = 1 => bus.pc \in {"fall", "sampled", "secondfall"}
    /\ (bus.pc = "done" /\ Entry.k = "byte") =>
          SelectSeq(bus.pulses, IsWritePulse)
             = <<[rs |-> Entry.rs, rw |-> 0, db |-> Entry.c \div 16],
                 [rs |-> Entry.rs, rw |-> 0, db |-> Entry.c % 16]>>

C29_Witness ==
    /\ call.op = "lcd_writeChar"
    /\ call.args = <<\h4b>>
    /\ bus.pc = "done"
    /\ bus.timeout = 2
    /\ Len(bus.pulses) = 6
    /\ SubSeq(bus.pulses, 1, 2) = <<[rs |-> 1, rw |-> 0, db |-> 4],
                                    [rs |-> 1, rw |-> 0, db |-> 11]>>

\* C30: with an attempt budget B configured, the polling loop of one byte
\* transfer makes at most B attempts and stops at the first attempt whose
\* sampled busy flag is 0; if the flag is 1 in all B attempts the loop ends
\* all the same, sendByte returns with nothing reported, and the pins and
\* the interrupt flag are left as after a successful poll.
C30_PollTerminates ==
    /\ [](bus.timeout > 0 =>
            /\ Len(bus.samples) <= bus.timeout
            /\ \A i \in 1..(Len(bus.samples) - 1) : bus.samples[i] = 1
            /\ bus.pc \in {"release", "exit"} =>
                  /\ bus.samples # <<>>
                  /\ \/ bus.samples[Len(bus.samples)] = 0
                     \/ Len(bus.samples) = bus.timeout
            /\ (bus.pc = "done" /\ Entry.k = "byte") =>
                  /\ bus.samples # <<>>
                  /\ bus.rs = 0 /\ bus.rw = 0 /\ bus.en = 0
                  /\ DataDirection(bus) = "out"
                  /\ bus.I = bus.sreg
                  /\ bus.waited = 0
                  /\ fault = NoFault)
    /\ [][(bus.pc = "test" /\ Len(bus.samples) = bus.timeout)
             => bus'.pc = "release"]_vars
    /\ [][(bus.pc = "secondfall" /\ bus.samples[Len(bus.samples)] = 0)
             => bus'.pc = "release"]_vars

C30_Witness ==
    /\ bus.timeout = MaxBudget
    /\ bus.pc = "done"
    /\ Entry.k = "byte"
    /\ bus.samples = [i \in 1..MaxBudget |-> 1]
    /\ bus.I

\* An enable pulse with R/W high
IsReadPulse(p) == p.rw = 1

\* C31: in each polling attempt exactly two enable pulses are issued, and on
\* every exit from the polling phase, flag cleared or budget exhausted, the
\* read/write line is low again and all four data lines are outputs again
\* before sendByte returns.
C31_PollProtocol ==
    bus.timeout > 0 =>
        LET reads == Len(SelectSeq(bus.pulses, IsReadPulse)) IN
        /\ bus.pc \in {"sampled", "second"} => reads = 2 * Len(bus.samples) - 1
        /\ bus.pc \notin {"sampled", "second"} => reads = 2 * Len(bus.samples)
        /\ bus.pc = "exit" =>
              /\ bus.samples # <<>>
              /\ bus.rw = 0
              /\ bus.en = 0
              /\ DataDirection(bus) = "out"
        /\ bus.rw = 1 => bus.pc \in {"test", "sample", "sampled", "second",
                                     "secondfall", "release"}

C31_Witness ==
    /\ bus.timeout = 2
    /\ bus.pc = "exit"
    /\ bus.samples = <<1, 1>>
    /\ Len(bus.pulses) = 6
    /\ bus.rw = 0
    /\ DataDirection(bus) = "out"

\* C32: without LCD_BUSY_TIMEOUT and with no interrupt handler on the bus,
\* every transfer is followed by a wait of at least the execution time of
\* what was sent: 42 us after a function-set, display-control, entry-mode or
\* set-address command, 1640 us after "Clear display" and after the byte of
\* lcd_command, 46 us after a data write; so no enable pulse reaches the
\* controller while it is still executing the previous command.
C32_FixedDelayPacing ==
    /\ ~bus.early
    /\ bus.pc \in {"send", "idle"} => bus.exec = 0
    /\ \A i \in 1..Len(out) :
          out[i].k = "byte" =>
              /\ out[i].delay >= ExecTime(out[i].rs, out[i].c)
              /\ out[i].rs = 1 => out[i].delay = DataWriteTime
              /\ out[i].rs = 0 /\ out[i].c = \h01 => out[i].delay = ClearTime
              /\ call.op = "lcd_command" => out[i].delay = ClearTime
              /\ out[i].rs = 0 /\ out[i].c > \h03 /\ call.op # "lcd_command" =>
                     out[i].delay = ShortCommandTime

\* lcd_command(0x02), "Return home", has been sent and waited for
C32_Witness ==
    /\ call.op = "lcd_command"
    /\ call.args = <<\h02>>
    /\ bus.pc = "idle"
    /\ bus.waited = 1640
    /\ bus.exec = 0
    /\ ~bus.early

\* C33: after any bytes passed to lcd_writeChar, at most four further ASCII
\* bytes give a dispatch (there are never four ASCII bytes in a row without
\* one), and once an ASCII run has had a dispatch every ASCII byte is
\* dispatched by the call that delivers it.
C33_DecoderProgress ==
    /\ run <= 3
    /\ (runNl /\ call.op = "lcd_writeChar") => disp # <<>>

\* C34: lcd_drawBar(percent) returns for every percent in 0..255 from every
\* state the driver can be in, whatever earlier lcd_writeChar calls left in
\* the UTF-8 accumulator.
C34_DrawBarTerminates == call.op = "lcd_drawBar" => ~fault.hang

\* C35: for every assignment of DB4..DB7 to port pins, whenever R/W is
\* driven high none of the four data pins is an output: they are made
\* inputs before R/W is raised and outputs again only after it is lowered.
C35_NoContention == bus.rw = 1 => DataPins(bus.wiring) \cap bus.ddr = {}

\* C36: when lcd_init returns the cursor is 0 and the address counter of the
\* controller points to DDRAM address 0x00, not into CGRAM, although the
\* call stored the sixteen bitmap bytes of the two reserved glyphs in CGRAM;
\* from there a call of lcd_writeChar that writes nothing leaves cursor and
\* address counter alone, and the first one that writes a glyph stores it
\* at DDRAM address 0x00 (row 1, column 1).
C36_InitEndsInDDRAM ==
    /\ [](call.op = "lcd_init" =>
            /\ lcdCursor = 0
            /\ ac = DDRAM(\h00)
            /\ Len(stored) = 16
            /\ \A i \in 1..Len(stored) : stored[i].ram = "CGRAM")
    /\ [][(lcdCursor = 0 /\ ac = DDRAM(\h00) /\ call'.op = "lcd_writeChar") =>
            /\ out' = <<>> => (lcdCursor' = 0 /\ ac' = ac)
            /\ DataBytes(out') # <<>> =>
                  /\ stored' = <<[ram |-> "DDRAM", addr |-> \h00,
                                  val |-> DataBytes(out')[1]]>>
                  /\ lcdCursor' = 1]_vars

\* lcd_init called again with the cursor in the second row
C36_Witness ==
    /\ call.op = "lcd_init"
    /\ call.cursor0 = 16
    /\ lcdCursor = 0
    /\ ac = DDRAM(\h00)
    /\ Len(stored) = 16

=============================================================================
